---------------------------- MODULE Spec2Model ----------------------------
(***************************************************************************)
(* A model of the frame-interval algebra (eta/core/frames.py) and of the   *)
(* object / schema layer (eta/core/objects.py) of ETA.                     *)
(*                                                                         *)
(* Spec      : one FrameRanges instance under add_range, simplify, clear,  *)
(*             reset, iter and next.                                       *)
(* SpecIter  : FrameRanges.from_iterable applied to an iterable.           *)
(* SpecBools : to_bools of a FrameRanges, then from_bools of the array.    *)
(* SpecSchema: entities are built, an active schema is built from one of   *)
(*             them or from a container of them, and validates its source. *)
(* SpecFilter: an Object is given child objects and is filtered by an      *)
(*             ObjectSchema, with a lookup table of Objects.               *)
(* SpecTime  : timestamp_to_frame_number applied to its arguments.         *)
(* SpecFilterDet: an Object that holds detections is filtered by an        *)
(*             ObjectSchema.                                               *)
(* SpecContFilter: a DetectedObjectContainer or an ObjectContainer is       *)
(*             filtered by an ObjectContainerSchema.                       *)
(* SpecSchemaOps: validate_subset_of_schema and merge_schema on             *)
(*             ObjectContainerSchemas and on their ObjectSchemas.          *)
(* SpecAdd   : an ObjectContainerSchema under add_object_label and the      *)
(*             add_*_attribute(s) calls.                                   *)
(* SpecDetFilter: a DetectedObject is filtered by an ObjectSchema.          *)
(* SpecTwo   : two traversals (for loops) of one FrameRanges instance,      *)
(*             interleaved.                                                *)
(* SpecIterDet: the detected objects of an ObjectContainer are iterated.    *)
(* SpecDescend: Object.filter_by_schema with a lookup table, call by call,  *)
(*             on Objects whose child references may form cycles.          *)
(* SpecBuild : two ObjectContainerSchemas are built from empty by the add_* *)
(*             calls, add_object(s) and merge_schema.                      *)
(* SpecObject: an Object under add_detection, add_detections,              *)
(*             add_child_object and reads of its support.                  *)
(***************************************************************************)
EXTENDS Integers, Sequences, FiniteSets, TLC

VARIABLES
    ranges,     \* FrameRanges._ranges: sequence of FrameRange objects
    idx,        \* FrameRanges._idx (0-based, as in the code)
    started,    \* FrameRanges._started
    res,        \* what the last call did: operation, outcome, value, argument
    yielded,    \* history: the frames returned by next() since the last reset()/iter()
    clean,      \* history: reset()/iter() was called and no add_range/simplify/clear since
    pc,         \* SpecIter, SpecBools: which call has returned
    iterable,   \* SpecIter: the iterable handed to from_iterable
    built,      \* SpecIter, SpecBools: what from_iterable / from_bools returned or raised
    count,      \* SpecBools: total_frame_count
    bools,      \* SpecBools: the array to_bools returned
    dets,       \* heap: handle -> DetectedObject
    objs,       \* heap: handle -> Object
    cur_schema, \* the ObjectSchema or ObjectContainerSchema in use
    ores,       \* what the last call on an entity or schema did
    tcall,      \* SpecTime: a call of timestamp_to_frame_number and what it returned
    elems,      \* a DetectedObjectContainer or ObjectContainer: class and handles
    schemas,    \* the schemas that a subset check or a merge works on, by name
    trav,       \* SpecTwo: the first of two traversals: status, frames it got, disturbed
    stack       \* SpecDescend: the calls of Object.filter_by_schema that are running

frVars == <<ranges, idx, started, res, yielded, clean>>

fnVars == <<pc, iterable, built, count, bools>>

objVars == <<dets, objs, cur_schema, ores>>

\* the variables that only one specification uses
extVars == <<tcall, elems, schemas, trav, stack>>

vars == <<ranges, idx, started, res, yielded, clean, pc, iterable, built, count, bools,
          dets, objs, cur_schema, ores, tcall, elems, schemas, trav, stack>>

(***************************************************************************)
(* Bounds                                                                  *)
(***************************************************************************)
MaxFrame == 4      \* frame numbers given to the operations are in 0..MaxFrame
MaxTuples == 2     \* (first, last) tuples handed to the constructor
MaxVals == 3       \* length of an iterable handed to from_iterable
MaxStrLen == 3     \* characters of a human-readable frames string
MaxCount == 5      \* total_frame_count handed to to_bools
MaxDetFrame == 2   \* frame numbers under which detections are stored are in 1..MaxDetFrame
MaxElems == 2      \* elements of a container
MaxTicks == 18     \* timestamps and durations, counted in half seconds
MaxFrameCount == 10 \* total_frame_count handed to timestamp_to_frame_number
MaxGot == 5        \* frames the first of two traversals takes before it is abandoned

NoInt == <<>>      \* Python's None where an integer may stand; an integer v is <<v>>

(***************************************************************************)
(* Generic helpers                                                         *)
(***************************************************************************)
Range(s) == {s[i] : i \in DOMAIN s}

SeqsUpTo(S, n) == UNION {[1..k -> S] : k \in 0..n}

IsPrefix(s, t) == Len(s) <= Len(t) /\ \A i \in 1..Len(s) : s[i] = t[i]

(***************************************************************************)
(* FrameRange                                                              *)
(***************************************************************************)
\* FrameRange._validate_range: the error it raises, or "ok"
ValidateRange(first, last) ==
    IF first < 1 THEN "FrameRangeError"
    ELSE IF last < first THEN "FrameRangeError"
    ELSE "ok"

\* FrameRange.__init__ (of a valid range): the cursor starts at -1
NewFrameRange(first, last) == [first |-> first, last |-> last, frame |-> -1]

\* FrameRange.reset
FrameRangeReset(r) == [r EXCEPT !.frame = -1]

\* FrameRange.to_list: list(range(first, last + 1))
FrameRangeToList(r) == [i \in 1..(r.last + 1 - r.first) |-> r.first + i - 1]

\* FrameRange.limits
Limits(r) == <<r.first, r.last>>

(***************************************************************************)
(* FrameRanges: queries                                                    *)
(***************************************************************************)
\* FrameRanges.limits[1]: the overall last frame, None if the instance is empty
End(rs) == IF rs = <<>> THEN NoInt ELSE <<rs[Len(rs)].last>>

\* FrameRanges.to_range_tuples
ToRangeTuples(rs) == [i \in 1..Len(rs) |-> Limits(rs[i])]

RECURSIVE ToList(_)
\* FrameRanges.to_list: the concatenation of the ranges' lists
ToList(rs) ==
    IF rs = <<>> THEN <<>>
    ELSE FrameRangeToList(Head(rs)) \o ToList(Tail(rs))

(***************************************************************************)
(* FrameRanges: _ingest_range / add_range                                  *)
(***************************************************************************)
\* the comparison of _ingest_range, mutated: < in place of <=
IngestRejects_lt(end, first) == end # NoInt /\ first < end[1]

\* _ingest_range: `end is not None and first <= end`
IngestRejects(end, first) == end # NoInt /\ first <= end[1]

\* _ingest_range: appends FrameRange(first, last) or raises, leaving the list alone
IngestRange(rs, first, last) ==
    IF IngestRejects(End(rs), first)
    THEN [kind |-> "FrameRangesError", ranges |-> rs]
    ELSE IF ValidateRange(first, last) # "ok"
    THEN [kind |-> ValidateRange(first, last), ranges |-> rs]
    ELSE [kind |-> "ok", ranges |-> Append(rs, NewFrameRange(first, last))]

RECURSIVE IngestAll(_, _)
\* `for new_range in ranges: self._ingest_range(new_range)`: stops at the first raise
IngestAll(rs, tuples) ==
    IF tuples = <<>> THEN [kind |-> "ok", ranges |-> rs]
    ELSE LET r == IngestRange(rs, Head(tuples)[1], Head(tuples)[2])
         IN  IF r.kind # "ok" THEN r ELSE IngestAll(r.ranges, Tail(tuples))

(***************************************************************************)
(* FrameRanges: traversal                                                  *)
(***************************************************************************)
RECURSIVE NextFrame(_, _)
\* FrameRanges.__next__ after `_started = True`; i is _idx.  next() of the
\* current FrameRange either moves its cursor or is exhausted, and then
\* _idx += 1 and the call recurses; past the last range it raises StopIteration.
NextFrame(rs, i) ==
    IF i >= Len(rs)
    THEN [kind |-> "StopIteration", ranges |-> rs, idx |-> i, val |-> -1]
    ELSE LET r == rs[i + 1]
         IN  IF r.frame < 0
             THEN [kind |-> "ok", ranges |-> [rs EXCEPT ![i + 1].frame = r.first],
                   idx |-> i, val |-> r.first]
             ELSE IF r.frame < r.last
             THEN [kind |-> "ok", ranges |-> [rs EXCEPT ![i + 1].frame = r.frame + 1],
                   idx |-> i, val |-> r.frame + 1]
             ELSE NextFrame(rs, i + 1)

\* FrameRanges.frame: -1 when not started, else self._ranges[self._idx].frame,
\* which raises IndexError when _idx is past the last range
Frame(rs, i, st) ==
    IF ~st THEN [kind |-> "ok", val |-> -1]
    ELSE IF i >= Len(rs) THEN [kind |-> "IndexError", val |-> -1]
    ELSE [kind |-> "ok", val |-> rs[i + 1].frame]

\* the slice of reset(), mutated: _ranges[:_idx] in place of _ranges[:(_idx + 1)]
ResetSlice_short(rs, i) == 1..(IF i < Len(rs) THEN i ELSE Len(rs))

\* the ranges reset() rewinds: _ranges[:(_idx + 1)]
ResetSlice(rs, i) == 1..(IF i + 1 < Len(rs) THEN i + 1 ELSE Len(rs))

\* FrameRanges.reset: the ranges after `for r in self._ranges[:(self._idx + 1)]: r.reset()`
ResetRanges(rs, i) ==
    [k \in 1..Len(rs) |-> IF k \in ResetSlice(rs, i) THEN FrameRangeReset(rs[k]) ELSE rs[k]]

(***************************************************************************)
(* FrameRanges: simplify                                                   *)
(***************************************************************************)
\* the merge test of simplify(), mutated: the +1 is lost, so adjacent ranges stay apart
MergesInto_overlap(ofirst, runningLast) == ofirst <= runningLast

\* simplify(): `ofirst <= last_range[1] + 1`
MergesInto(ofirst, runningLast) == ofirst <= runningLast + 1

RECURSIVE MergePass_once(_, _, _)
\* the loop of simplify(), mutated: once a merge has happened the running
\* range is no longer compared, so a run of three adjacent ranges merges only two
MergePass_once(old, new, did) ==
    IF old = <<>> THEN [new |-> new, did |-> did]
    ELSE LET o == Limits(Head(old))
             n == Len(new)
         IN  IF ~did /\ MergesInto(o[1], new[n][2])
             THEN MergePass_once(Tail(old), [new EXCEPT ![n] = <<new[n][1], o[2]>>], TRUE)
             ELSE MergePass_once(Tail(old), Append(new, o), did)

RECURSIVE MergePass(_, _, _)
\* the loop of simplify() over self._ranges[1:]; new is new_ranges, whose last
\* element is last_range, and did is did_something
MergePass(old, new, did) ==
    IF old = <<>> THEN [new |-> new, did |-> did]
    ELSE LET o == Limits(Head(old))
             n == Len(new)
         IN  IF MergesInto(o[1], new[n][2])
             THEN MergePass(Tail(old), [new EXCEPT ![n] = <<new[n][1], o[2]>>], TRUE)
             ELSE MergePass(Tail(old), Append(new, o), did)

\* FrameRanges.simplify as a function of (_ranges, _idx, _started)
Simplify(rs, i, st) ==
    IF rs = <<>>
    THEN [kind |-> "ok", ranges |-> rs, idx |-> i, started |-> st, did |-> FALSE]
    ELSE LET m == MergePass(Tail(rs), <<Limits(rs[1])>>, FALSE)
         IN  IF ~m.did
             THEN [kind |-> "ok", ranges |-> ResetRanges(rs, i), idx |-> 0,
                   started |-> FALSE, did |-> FALSE]
             ELSE LET a == IngestAll(<<>>, m.new)
                  IN  [kind |-> a.kind, ranges |-> a.ranges, idx |-> 0,
                       started |-> FALSE, did |-> TRUE]

(***************************************************************************)
(* Construction from an iterable of frames                                 *)
(***************************************************************************)
RECURSIVE InsertSorted(_, _)
InsertSorted(s, v) ==
    IF s = <<>> THEN <<v>>
    ELSE IF v < Head(s) THEN <<v>> \o s
    ELSE <<Head(s)>> \o InsertSorted(Tail(s), v)

RECURSIVE Sorted(_)
\* sorted(vals): ascending, duplicates kept
Sorted(s) == IF s = <<>> THEN <<>> ELSE InsertSorted(Sorted(Tail(s)), Head(s))

RECURSIVE RunScan(_, _, _)
\* the loop of _iterable_to_ranges over vals[1:], with the final yield
RunScan(rest, first, last) ==
    IF rest = <<>> THEN << <<first, last>> >>
    ELSE IF Head(rest) = last + 1
    THEN RunScan(Tail(rest), first, last + 1)
    ELSE << <<first, last>> >> \o RunScan(Tail(rest), Head(rest), Head(rest))

\* _iterable_to_ranges: the (first, last) tuples it yields
IterableToRanges(vals) ==
    LET sv == Sorted(vals)
    IN  IF sv = <<>> THEN <<>> ELSE RunScan(Tail(sv), sv[1], sv[1])

\* FrameRanges.from_iterable: cls(ranges=_iterable_to_ranges(frames))
FromIterable(vals) == IngestAll(<<>>, IterableToRanges(vals))

(***************************************************************************)
(* Boolean arrays                                                          *)
(***************************************************************************)
\* the array index of a frame, mutated: the frame number itself
MaskIndex_same(frame) == frame

\* to_bools: frame i is stored at the 0-based index i - 1
MaskIndex(frame) == frame - 1

\* FrameRanges.to_bools(total_frame_count): position k of the sequence is the
\* element of the numpy array at index k - 1
ToBools(rs, total_frame_count) ==
    LET lst == ToList(rs)
        inds == {MaskIndex(lst[k]) : k \in {j \in 1..Len(lst) : lst[j] <= total_frame_count}}
    IN  [k \in 1..total_frame_count |-> (k - 1) \in inds]

RECURSIVE FlatNonzero(_, _)
\* np.flatnonzero: the 0-based indices of the true elements, ascending; k is
\* the position being looked at
FlatNonzero(b, k) ==
    IF k > Len(b) THEN <<>>
    ELSE IF b[k] THEN <<k - 1>> \o FlatNonzero(b, k + 1)
    ELSE FlatNonzero(b, k + 1)

\* FrameRanges.from_bools: cls.from_iterable(1 + np.flatnonzero(bools))
FromBools(b) ==
    LET nz == FlatNonzero(b, 1)
    IN  FromIterable([k \in 1..Len(nz) |-> 1 + nz[k]])

(***************************************************************************)
(* Construction from a human-readable string, a sequence of characters     *)
(***************************************************************************)
Digits == {"0", "1", "2", "3", "4", "5", "6", "7", "8", "9"}

DigitVal(c) ==
    CASE c = "0" -> 0 [] c = "1" -> 1 [] c = "2" -> 2 [] c = "3" -> 3 [] c = "4" -> 4
      [] c = "5" -> 5 [] c = "6" -> 6 [] c = "7" -> 7 [] c = "8" -> 8 [] c = "9" -> 9

RECURSIVE Split(_, _, _)
\* str.split(sep): cur is the piece being read
Split(s, sep, cur) ==
    IF s = <<>> THEN <<cur>>
    ELSE IF Head(s) = sep THEN <<cur>> \o Split(Tail(s), sep, <<>>)
    ELSE Split(Tail(s), sep, Append(cur, Head(s)))

\* int(token) succeeds on a non-empty run of digits
IsInt(tok) == tok # <<>> /\ \A i \in 1..Len(tok) : tok[i] \in Digits

RECURSIVE IntOf(_, _)
IntOf(tok, acc) == IF tok = <<>> THEN acc ELSE IntOf(Tail(tok), 10 * acc + DigitVal(Head(tok)))

\* FrameRange.from_human_str: int() of the pieces between "-", then cls(v[0], v[-1])
RangeFromHumanStr(tok) ==
    LET parts == Split(tok, "-", <<>>)
    IN  IF \E i \in 1..Len(parts) : ~IsInt(parts[i])
        THEN [kind |-> "FrameRangeError", tuple |-> <<0, 0>>]
        ELSE LET f == IntOf(parts[1], 0)
                 l == IntOf(parts[Len(parts)], 0)
             IN  [kind |-> ValidateRange(f, l), tuple |-> <<f, l>>]

RECURSIVE ParseTokens(_)
\* the loop of _parse_frames_str over the pieces between ",": empty pieces are skipped
ParseTokens(toks) ==
    IF toks = <<>> THEN [kind |-> "ok", tuples |-> <<>>]
    ELSE IF Head(toks) = <<>> THEN ParseTokens(Tail(toks))
    ELSE LET r == RangeFromHumanStr(Head(toks))
         IN  IF r.kind # "ok" THEN [kind |-> r.kind, tuples |-> <<>>]
             ELSE LET rest == ParseTokens(Tail(toks))
                  IN  [kind |-> rest.kind, tuples |-> <<r.tuple>> \o rest.tuples]

\* FrameRanges._parse_frames_str
ParseFramesStr(str) == ParseTokens(Split(str, ",", <<>>))

\* FrameRanges.from_human_str: cls(ranges=frames_str)
FromHumanStr(str) ==
    LET p == ParseFramesStr(str)
    IN  IF p.kind # "ok" THEN [kind |-> p.kind, ranges |-> <<>>]
        ELSE IngestAll(<<>>, p.tuples)

(***************************************************************************)
(* Attributes and attribute schemas (eta.core.data).  An Attribute is a    *)
(* (name, value) record, an AttributeContainer the set of its attributes,  *)
(* an AttributeContainerSchema the set of (name, value) pairs it declares. *)
(***************************************************************************)
None == "None"     \* Python's None where a label or a uuid may stand

\* AttributeContainerSchema(): nothing declared
EmptyAttrSchema == {}

\* AttributeContainerSchema.add_attributes(attrs): a monotonic union
AttrSchemaAdd(acs, attrs) == acs \cup attrs

\* AttributeContainerSchema.validate(attrs): the first undeclared attribute raises
AttrSchemaValidate(acs, attrs) ==
    IF attrs \subseteq acs THEN "ok" ELSE "AttributeContainerSchemaError"

\* AttributeContainer.filter_by_schema(schema): keeps what the schema permits
AttrFilter(attrs, acs) == attrs \cap acs

\* AttributeContainerSchema.add_attributes handed a frames dictionary: its
\* elements are frame numbers, which have no attribute name to declare
AttrSchemaAddDict(acs, frames) ==
    IF frames = <<>> THEN [kind |-> "ok", acs |-> acs]
    ELSE [kind |-> "AttributeError", acs |-> acs]

(***************************************************************************)
(* Entities.  DetectedObjects and Objects live in a heap and are referred  *)
(* to by handle; Object.frames is an insertion-ordered dictionary, a       *)
(* sequence of <<frame number, DetectedObject handle>> with distinct keys. *)
(***************************************************************************)
\* DetectedObject.__init__: it has label, frame_number and attrs, and no `frames`
NewDetectedObject(label, frame_number, attrs) ==
    [type |-> "DetectedObject", label |-> label, frame_number |-> frame_number,
     attrs |-> attrs]

\* support=None of Object.__init__; an explicit support rs is <<rs>>
NoSupport == <<>>

\* Object.__init__; the field support is self._support
NewObject(label, uuid, attrs, frames, child_objects, support) ==
    [type |-> "Object", label |-> label, uuid |-> uuid, attrs |-> attrs,
     frames |-> frames, child_objects |-> child_objects, support |-> support]

\* isinstance(obj, Object)
IsObject(ent) == ent.type = "Object"

\* hasattr(ent, "frames"): reading a missing attribute raises AttributeError
HasFrames(ent) == "frames" \in DOMAIN ent

\* Object.iter_detections: itervalues(self.frames), handles in dictionary order
IterDetections(obj) == [i \in 1..Len(obj.frames) |-> obj.frames[i][2]]

(***************************************************************************)
(* ObjectSchema                                                            *)
(***************************************************************************)
\* ObjectContainerSchema(): the empty mapping label -> ObjectSchema
EmptyContainerSchema == <<>>

\* ObjectSchema.__init__(label)
NewObjectSchema(label) ==
    [label |-> label, attrs |-> EmptyAttrSchema, frames |-> EmptyAttrSchema,
     child_objects |-> EmptyContainerSchema]

\* ObjectSchema.validate_label
ObjectSchema_validate_label(schema, label) ==
    IF label # schema.label THEN "ObjectSchemaError" ELSE "ok"

\* ObjectSchema._add_detected_object: the DetectedObject's attrs go through
\* add_object_attributes, and then `dobj.frames` is read
ObjectSchema_add_detected_object(schema, dobj, validate_label) ==
    IF validate_label /\ ObjectSchema_validate_label(schema, dobj.label) # "ok"
    THEN [kind |-> "ObjectSchemaError", schema |-> schema]
    ELSE LET s1 == [schema EXCEPT !.attrs = AttrSchemaAdd(@, dobj.attrs)]
         IN  IF ~HasFrames(dobj)
             THEN [kind |-> "AttributeError", schema |-> s1]
             ELSE LET a == AttrSchemaAddDict(s1.frames, dobj.frames)
                  IN  [kind |-> a.kind, schema |-> [s1 EXCEPT !.frames = a.acs]]

RECURSIVE ObjectSchema_add_detections(_, _, _)
\* the loop of ObjectSchema._add_object over obj.iter_detections()
ObjectSchema_add_detections(schema, handles, heap) ==
    IF handles = <<>> THEN [kind |-> "ok", schema |-> schema]
    ELSE LET r == ObjectSchema_add_detected_object(schema, heap[Head(handles)], FALSE)
         IN  IF r.kind # "ok" THEN r
             ELSE ObjectSchema_add_detections(r.schema, Tail(handles), heap)

\* ObjectSchema._add_object: obj.frames, a dictionary, goes through add_frame_attributes
ObjectSchema_add_object(schema, obj, heap) ==
    IF ObjectSchema_validate_label(schema, obj.label) # "ok"
    THEN [kind |-> "ObjectSchemaError", schema |-> schema]
    ELSE LET s1 == [schema EXCEPT !.attrs = AttrSchemaAdd(@, obj.attrs)]
             a == AttrSchemaAddDict(s1.frames, obj.frames)
         IN  IF a.kind # "ok" THEN [kind |-> a.kind, schema |-> s1]
             ELSE ObjectSchema_add_detections(
                      [s1 EXCEPT !.frames = a.acs], IterDetections(obj), heap)

\* ObjectSchema.build_active_schema(obj), without a lookup table of child objects
ObjectSchema_build_active_schema(ent, heap) ==
    IF IsObject(ent) THEN ObjectSchema_add_object(NewObjectSchema(ent.label), ent, heap)
    ELSE ObjectSchema_add_detected_object(NewObjectSchema(ent.label), ent, TRUE)

\* ObjectSchema._validate_detected_object
ObjectSchema_validate_detected_object(schema, dobj, validate_label) ==
    IF validate_label /\ ObjectSchema_validate_label(schema, dobj.label) # "ok"
    THEN "ObjectSchemaError"
    ELSE AttrSchemaValidate(schema.frames, dobj.attrs)

RECURSIVE ObjectSchema_validate_detections(_, _, _)
\* the loop of ObjectSchema._validate_object over obj.iter_detections()
ObjectSchema_validate_detections(schema, handles, heap) ==
    IF handles = <<>> THEN "ok"
    ELSE LET k == ObjectSchema_validate_detected_object(schema, heap[Head(handles)], FALSE)
         IN  IF k # "ok" THEN k
             ELSE ObjectSchema_validate_detections(schema, Tail(handles), heap)

\* ObjectSchema._validate_object
ObjectSchema_validate_object(schema, obj, heap) ==
    IF ObjectSchema_validate_label(schema, obj.label) # "ok" THEN "ObjectSchemaError"
    ELSE IF AttrSchemaValidate(schema.attrs, obj.attrs) # "ok"
    THEN AttrSchemaValidate(schema.attrs, obj.attrs)
    ELSE ObjectSchema_validate_detections(schema, IterDetections(obj), heap)

\* ObjectSchema.validate(obj)
ObjectSchema_validate(schema, ent, heap) ==
    IF IsObject(ent) THEN ObjectSchema_validate_object(schema, ent, heap)
    ELSE ObjectSchema_validate_detected_object(schema, ent, TRUE)

(***************************************************************************)
(* ObjectContainerSchema: a mapping label -> ObjectSchema                  *)
(***************************************************************************)
\* ObjectContainerSchema.has_object_label
has_object_label(cs, label) == label \in DOMAIN cs

\* _ensure_has_object_label, mutated: a fresh ObjectSchema is stored also
\* when the label is already declared
ensure_has_object_label_fresh(cs, label) ==
    [l \in DOMAIN cs \cup {label} |-> IF l = label THEN NewObjectSchema(label) ELSE cs[l]]

\* _ensure_has_object_label, mutated: the ObjectSchema stored for a new label
\* is made without the label
ensure_has_object_label_unlabelled(cs, label) ==
    IF has_object_label(cs, label) THEN cs
    ELSE [l \in DOMAIN cs \cup {label} |->
              IF l \in DOMAIN cs THEN cs[l] ELSE NewObjectSchema(None)]

\* ObjectContainerSchema._ensure_has_object_label
ensure_has_object_label(cs, label) ==
    IF has_object_label(cs, label) THEN cs
    ELSE [l \in DOMAIN cs \cup {label} |->
              IF l \in DOMAIN cs THEN cs[l] ELSE NewObjectSchema(label)]

\* ObjectContainerSchema.add_object_attributes(label, attrs)
ContainerSchema_add_object_attributes(cs, label, attrs) ==
    LET c1 == ensure_has_object_label(cs, label)
    IN  [c1 EXCEPT ![label].attrs = AttrSchemaAdd(@, attrs)]

\* ObjectContainerSchema.add_frame_attributes(label, attrs)
ContainerSchema_add_frame_attributes(cs, label, attrs) ==
    LET c1 == ensure_has_object_label(cs, label)
    IN  [c1 EXCEPT ![label].frames = AttrSchemaAdd(@, attrs)]

\* ObjectContainerSchema._add_detected_object(dobj, label): the
\* DetectedObject's own label, when it has one, replaces the label passed in
ContainerSchema_add_detected_object(cs, dobj, label) ==
    IF dobj.label # None
    THEN ContainerSchema_add_frame_attributes(
             ensure_has_object_label(cs, dobj.label), dobj.label, dobj.attrs)
    ELSE ContainerSchema_add_frame_attributes(cs, label, dobj.attrs)

RECURSIVE ContainerSchema_add_detections(_, _, _, _)
\* the loop of ObjectContainerSchema._add_object over obj.iter_detections()
ContainerSchema_add_detections(cs, handles, label, heap) ==
    IF handles = <<>> THEN cs
    ELSE ContainerSchema_add_detections(
             ContainerSchema_add_detected_object(cs, heap[Head(handles)], label),
             Tail(handles), label, heap)

\* ObjectContainerSchema._add_object
ContainerSchema_add_object(cs, obj, heap) ==
    ContainerSchema_add_detections(
        ContainerSchema_add_object_attributes(
            ensure_has_object_label(cs, obj.label), obj.label, obj.attrs),
        IterDetections(obj), obj.label, heap)

RECURSIVE ContainerSchema_add_objects(_, _, _)
\* ObjectContainerSchema.add_objects / add_object: dispatch on isinstance(obj, Object)
ContainerSchema_add_objects(cs, container, heap) ==
    IF container = <<>> THEN cs
    ELSE LET ent == heap[Head(container)]
             c1 == IF IsObject(ent) THEN ContainerSchema_add_object(cs, ent, heap)
                   ELSE ContainerSchema_add_detected_object(cs, ent, None)
         IN  ContainerSchema_add_objects(c1, Tail(container), heap)

\* ObjectContainerSchema.build_active_schema(objects)
ContainerSchema_build_active_schema(container, heap) ==
    ContainerSchema_add_objects(EmptyContainerSchema, container, heap)

\* ObjectContainerSchema.validate_object_label
validate_object_label(cs, label) ==
    IF ~has_object_label(cs, label) THEN "ObjectContainerSchemaError" ELSE "ok"

\* ObjectContainerSchema.validate_object_attributes(label, attrs)
ContainerSchema_validate_object_attributes(cs, label, attrs) ==
    IF validate_object_label(cs, label) # "ok" THEN validate_object_label(cs, label)
    ELSE AttrSchemaValidate(cs[label].attrs, attrs)

\* ObjectContainerSchema.validate_frame_attributes(label, attrs)
ContainerSchema_validate_frame_attributes(cs, label, attrs) ==
    IF validate_object_label(cs, label) # "ok" THEN validate_object_label(cs, label)
    ELSE AttrSchemaValidate(cs[label].frames, attrs)

\* ObjectContainerSchema._validate_detected_object(dobj, label): the label
\* passed in wins, the DetectedObject's own label is used only when it is None
ContainerSchema_validate_detected_object(cs, dobj, label) ==
    LET lab == IF label = None THEN dobj.label ELSE label
    IN  IF validate_object_label(cs, lab) # "ok" THEN validate_object_label(cs, lab)
        ELSE ContainerSchema_validate_frame_attributes(cs, lab, dobj.attrs)

RECURSIVE ContainerSchema_validate_detections(_, _, _, _)
\* the loop of ObjectContainerSchema._validate_object over obj.iter_detections()
ContainerSchema_validate_detections(cs, handles, label, heap) ==
    IF handles = <<>> THEN "ok"
    ELSE LET k == ContainerSchema_validate_detected_object(cs, heap[Head(handles)], label)
         IN  IF k # "ok" THEN k
             ELSE ContainerSchema_validate_detections(cs, Tail(handles), label, heap)

\* ObjectContainerSchema._validate_object
ContainerSchema_validate_object(cs, obj, heap) ==
    IF validate_object_label(cs, obj.label) # "ok" THEN validate_object_label(cs, obj.label)
    ELSE IF ContainerSchema_validate_object_attributes(cs, obj.label, obj.attrs) # "ok"
    THEN ContainerSchema_validate_object_attributes(cs, obj.label, obj.attrs)
    ELSE ContainerSchema_validate_detections(cs, IterDetections(obj), obj.label, heap)

RECURSIVE ContainerSchema_validate(_, _, _)
\* ObjectContainerSchema.validate(objects): the first failure in container order
ContainerSchema_validate(cs, container, heap) ==
    IF container = <<>> THEN "ok"
    ELSE LET ent == heap[Head(container)]
             k == IF IsObject(ent) THEN ContainerSchema_validate_object(cs, ent, heap)
                  ELSE ContainerSchema_validate_detected_object(cs, ent, None)
         IN  IF k # "ok" THEN k ELSE ContainerSchema_validate(cs, Tail(container), heap)

(***************************************************************************)
(* filter_by_schema of DetectedObject and Object.  d and ob are the two    *)
(* heaps; a call returns them as it left them, also when it raised.        *)
(***************************************************************************)
\* DetectedObject.filter_by_schema, mutated: the label is not looked at
DetectedObject_filter_by_schema_any_label(dobj, schema, allow_none_label) ==
    [kind |-> "ok", dobj |-> [dobj EXCEPT !.attrs = AttrFilter(@, schema.frames)]]

\* DetectedObject.filter_by_schema, mutated: the attributes are filtered
\* before the label is looked at
DetectedObject_filter_by_schema_filters_first(dobj, schema, allow_none_label) ==
    LET filtered == [dobj EXCEPT !.attrs = AttrFilter(@, schema.frames)]
    IN  IF dobj.label = None /\ ~allow_none_label
        THEN [kind |-> "ObjectSchemaError", dobj |-> filtered]
        ELSE IF dobj.label # None /\ dobj.label # schema.label
        THEN [kind |-> "ObjectSchemaError", dobj |-> filtered]
        ELSE [kind |-> "ok", dobj |-> filtered]

\* DetectedObject.filter_by_schema, mutated: the attributes are not filtered
DetectedObject_filter_by_schema_keeps_attrs(dobj, schema, allow_none_label) ==
    IF dobj.label = None /\ ~allow_none_label
    THEN [kind |-> "ObjectSchemaError", dobj |-> dobj]
    ELSE IF dobj.label # None /\ dobj.label # schema.label
    THEN [kind |-> "ObjectSchemaError", dobj |-> dobj]
    ELSE [kind |-> "ok", dobj |-> dobj]

\* DetectedObject.filter_by_schema(schema, allow_none_label)
DetectedObject_filter_by_schema(dobj, schema, allow_none_label) ==
    IF dobj.label = None /\ ~allow_none_label
    THEN [kind |-> "ObjectSchemaError", dobj |-> dobj]
    ELSE IF dobj.label # None /\ dobj.label # schema.label
    THEN [kind |-> "ObjectSchemaError", dobj |-> dobj]
    ELSE [kind |-> "ok", dobj |-> [dobj EXCEPT !.attrs = AttrFilter(@, schema.frames)]]

RECURSIVE FilterDetections(_, _, _)
\* Object.filter_by_schema: `for dobj in itervalues(self.frames):
\* dobj.filter_by_schema(schema, allow_none_label=True)`
FilterDetections(d, handles, schema) ==
    IF handles = <<>> THEN [kind |-> "ok", dets |-> d]
    ELSE LET r == DetectedObject_filter_by_schema(d[Head(handles)], schema, TRUE)
         IN  IF r.kind # "ok" THEN [kind |-> r.kind, dets |-> d]
             ELSE FilterDetections([d EXCEPT ![Head(handles)] = r.dobj], Tail(handles), schema)

\* Object.filter_by_schema(schema) without a lookup table: label, object-level
\* attributes, detections
Object_filter_own(d, ob, h, schema) ==
    IF ObjectSchema_validate_label(schema, ob[h].label) # "ok"
    THEN [kind |-> "ObjectSchemaError", dets |-> d, objs |-> ob]
    ELSE LET ob1 == [ob EXCEPT ![h].attrs = AttrFilter(@, schema.attrs)]
             r == FilterDetections(d, IterDetections(ob1[h]), schema)
         IN  [kind |-> r.kind, dets |-> r.dets, objs |-> ob1]

\* what the set iterator does after self.child_objects.remove(uuid): the set
\* changed size during iteration, and the next step of the loop raises
AfterRemove == "RuntimeError"

RECURSIVE FilterChildren(_, _, _, _, _, _)
\* Object.filter_by_schema: the loop `for uuid in self.child_objects`, which
\* visits the set in the order `order`; objects maps uuids to Object handles
FilterChildren(d, ob, h, order, schema, objects) ==
    IF order = <<>> THEN [kind |-> "ok", dets |-> d, objs |-> ob]
    ELSE LET uuid == Head(order)
         IN  IF uuid \notin DOMAIN objects
             THEN FilterChildren(d, ob, h, Tail(order), schema, objects)
             ELSE LET child == objects[uuid]
                  IN  IF ~has_object_label(schema.child_objects, ob[child].label)
                      THEN LET ob1 == [ob EXCEPT ![h].child_objects = @ \ {uuid}]
                           IN  IF AfterRemove # "ok"
                               THEN [kind |-> AfterRemove, dets |-> d, objs |-> ob1]
                               ELSE FilterChildren(d, ob1, h, Tail(order), schema, objects)
                      ELSE LET r == Object_filter_own(d, ob, child,
                                        schema.child_objects[ob[child].label])
                           IN  IF r.kind # "ok" THEN r
                               ELSE FilterChildren(r.dets, r.objs, h, Tail(order),
                                                   schema, objects)

\* Object.filter_by_schema(schema, objects); objects = <<>> stands for None or {}
Object_filter_by_schema(d, ob, h, schema, objects, order) ==
    LET r == Object_filter_own(d, ob, h, schema)
    IN  IF r.kind # "ok" \/ objects = <<>> THEN r
        ELSE FilterChildren(r.dets, r.objs, h, order, schema, objects)

(***************************************************************************)
(* filter_by_schema of DetectedObjectContainer and ObjectContainer         *)
(***************************************************************************)
RECURSIVE FilterElements(_, _)
\* Container.filter_elements([filter_func]): the elements that pass, in order;
\* kept is the set of handles on which filter_func is true
FilterElements(handles, kept) ==
    IF handles = <<>> THEN <<>>
    ELSE IF Head(handles) \in kept
         THEN <<Head(handles)>> \o FilterElements(Tail(handles), kept)
         ELSE FilterElements(Tail(handles), kept)

\* ObjectContainerSchema.get_object_schema(label)
get_object_schema(cs, label) ==
    IF validate_object_label(cs, label) # "ok"
    THEN [kind |-> validate_object_label(cs, label), schema |-> NewObjectSchema(None)]
    ELSE [kind |-> "ok", schema |-> cs[label]]

RECURSIVE DetContainerFilterEach(_, _, _)
\* DetectedObjectContainer.filter_by_schema: `for obj in self:
\* obj.filter_by_schema(schema.get_object_schema(obj.label))`
DetContainerFilterEach(d, handles, cs) ==
    IF handles = <<>> THEN [kind |-> "ok", dets |-> d]
    ELSE LET h == Head(handles)
             g == get_object_schema(cs, d[h].label)
         IN  IF g.kind # "ok" THEN [kind |-> g.kind, dets |-> d]
             ELSE LET r == DetectedObject_filter_by_schema(d[h], g.schema, FALSE)
                  IN  IF r.kind # "ok" THEN [kind |-> r.kind, dets |-> d]
                      ELSE DetContainerFilterEach([d EXCEPT ![h] = r.dobj],
                                                  Tail(handles), cs)

\* filter_func = lambda obj: schema.has_object_label(obj.label), as the set
\* of handles it is true of
DeclaredHandles(heap, handles, cs) ==
    {h \in Range(handles) : has_object_label(cs, heap[h].label)}

\* DetectedObjectContainer.filter_by_schema(schema)
DetectedObjectContainer_filter_by_schema(d, handles, cs) ==
    LET kept == FilterElements(handles, DeclaredHandles(d, handles, cs))
        r == DetContainerFilterEach(d, kept, cs)
    IN  [kind |-> r.kind, dets |-> r.dets, objects |-> kept]

RECURSIVE ObjContainerFilterEach(_, _, _, _)
\* ObjectContainer.filter_by_schema: `for obj in self:
\* obj.filter_by_schema(schema.get_object_schema(obj.label))`
ObjContainerFilterEach(d, ob, handles, cs) ==
    IF handles = <<>> THEN [kind |-> "ok", dets |-> d, objs |-> ob]
    ELSE LET h == Head(handles)
             g == get_object_schema(cs, ob[h].label)
         IN  IF g.kind # "ok" THEN [kind |-> g.kind, dets |-> d, objs |-> ob]
             ELSE LET r == Object_filter_by_schema(d, ob, h, g.schema, <<>>, <<>>)
                  IN  IF r.kind # "ok" THEN r
                      ELSE ObjContainerFilterEach(r.dets, r.objs, Tail(handles), cs)

\* ObjectContainer.filter_by_schema(schema)
ObjectContainer_filter_by_schema(d, ob, handles, cs) ==
    LET kept == FilterElements(handles, DeclaredHandles(ob, handles, cs))
        r == ObjContainerFilterEach(d, ob, kept, cs)
    IN  [kind |-> r.kind, dets |-> r.dets, objs |-> r.objs, objects |-> kept]

(***************************************************************************)
(* validate_subset_of_schema and merge_schema                              *)
(***************************************************************************)
\* AttributeContainerSchema.validate_subset_of_schema(schema)
AttrSchemaSubset(acs, other) ==
    IF acs \subseteq other THEN "ok" ELSE "AttributeContainerSchemaError"

\* AttributeContainerSchema.merge_schema(schema): a union of the declarations
AttrSchemaMerge(acs, other) == acs \cup other

\* ObjectSchema.validate_subset_of_schema(schema)
ObjectSchema_validate_subset_of_schema(schema, other) ==
    IF schema.label # other.label THEN "ObjectSchemaError"
    ELSE IF AttrSchemaSubset(schema.attrs, other.attrs) # "ok"
    THEN AttrSchemaSubset(schema.attrs, other.attrs)
    ELSE AttrSchemaSubset(schema.frames, other.frames)

RECURSIVE ContainerSchema_validate_subset_of_schema(_, _, _)
\* ObjectContainerSchema.validate_subset_of_schema(schema): the loop over
\* iteritems(self.schema), which visits the labels in the order `labels`
ContainerSchema_validate_subset_of_schema(cs, labels, other) ==
    IF labels = <<>> THEN "ok"
    ELSE LET label == Head(labels)
         IN  IF ~has_object_label(other, label) THEN "ObjectContainerSchemaError"
             ELSE LET g == get_object_schema(other, label)
                      r == ObjectSchema_validate_subset_of_schema(cs[label], g.schema)
                  IN  IF g.kind # "ok" THEN g.kind
                      ELSE IF r # "ok" THEN r
                      ELSE ContainerSchema_validate_subset_of_schema(cs, Tail(labels), other)

RECURSIVE SetToSeq(_)
\* the keys of a dictionary in some order
SetToSeq(S) ==
    IF S = {} THEN <<>>
    ELSE LET x == CHOOSE x \in S : TRUE IN <<x>> \o SetToSeq(S \ {x})

RECURSIVE ObjectSchema_merge_schema_replaces(_, _)
RECURSIVE ObjectSchema_merge_schema_late_check(_, _)
RECURSIVE ObjectSchema_merge_schema(_, _)
RECURSIVE ContainerSchema_merge_each(_, _, _)

\* ObjectContainerSchema.merge_schema(schema)
ContainerSchema_merge_schema(cs, other) ==
    ContainerSchema_merge_each(cs, SetToSeq(DOMAIN other), other)

\* ObjectSchema.merge_schema, mutated: the object-level declarations of the
\* other schema replace the receiver's
ObjectSchema_merge_schema_replaces(schema, other) ==
    IF ObjectSchema_validate_label(schema, other.label) # "ok"
    THEN [kind |-> "ObjectSchemaError", schema |-> schema]
    ELSE LET c == ContainerSchema_merge_schema(schema.child_objects, other.child_objects)
         IN  [kind |-> c.kind,
              schema |-> [schema EXCEPT !.attrs = other.attrs,
                                        !.frames = AttrSchemaMerge(@, other.frames),
                                        !.child_objects = c.schema]]

\* ObjectSchema.merge_schema, mutated: the label is validated after the
\* attribute declarations were merged
ObjectSchema_merge_schema_late_check(schema, other) ==
    LET s1 == [schema EXCEPT !.attrs = AttrSchemaMerge(@, other.attrs),
                             !.frames = AttrSchemaMerge(@, other.frames)]
    IN  IF ObjectSchema_validate_label(schema, other.label) # "ok"
        THEN [kind |-> "ObjectSchemaError", schema |-> s1]
        ELSE LET c == ContainerSchema_merge_schema(schema.child_objects,
                                                   other.child_objects)
             IN  [kind |-> c.kind, schema |-> [s1 EXCEPT !.child_objects = c.schema]]

\* ObjectSchema.merge_schema(schema)
ObjectSchema_merge_schema(schema, other) ==
    IF ObjectSchema_validate_label(schema, other.label) # "ok"
    THEN [kind |-> "ObjectSchemaError", schema |-> schema]
    ELSE LET c == ContainerSchema_merge_schema(schema.child_objects, other.child_objects)
         IN  [kind |-> c.kind,
              schema |-> [schema EXCEPT !.attrs = AttrSchemaMerge(@, other.attrs),
                                        !.frames = AttrSchemaMerge(@, other.frames),
                                        !.child_objects = c.schema]]

\* ObjectContainerSchema.merge_schema: `for label, obj_schema in
\* schema.iter_objects(): self._ensure_has_object_label(label);
\* self.schema[label].merge_schema(obj_schema)`
ContainerSchema_merge_each(cs, labels, other) ==
    IF labels = <<>> THEN [kind |-> "ok", schema |-> cs]
    ELSE LET label == Head(labels)
             c1 == ensure_has_object_label(cs, label)
             r == ObjectSchema_merge_schema(c1[label], other[label])
             c2 == [c1 EXCEPT ![label] = r.schema]
         IN  IF r.kind # "ok" THEN [kind |-> r.kind, schema |-> c2]
             ELSE ContainerSchema_merge_each(c2, Tail(labels), other)

(***************************************************************************)
(* Spec: one FrameRanges instance                                          *)
(***************************************************************************)
Frames == 0..MaxFrame

StrChars == {"1", "2", "4", ",", "-"}

TupleInputs == SeqsUpTo(Frames \X Frames, MaxTuples)

StrInputs == SeqsUpTo(StrChars, MaxStrLen)

IterInputs == SeqsUpTo(Frames, MaxVals)

\* what the three ways of constructing a FrameRanges produce on the inputs above
Constructed ==
    {IngestAll(<<>>, t) : t \in TupleInputs}
        \cup {FromHumanStr(str) : str \in StrInputs}
        \cup {FromIterable(v) : v \in IterInputs}

Result(op, kind, val, arg, did) ==
    [op |-> op, kind |-> kind, val |-> val, arg |-> arg, did |-> did]

NotBuilt == [kind |-> "none", ranges |-> <<>>]

\* the variables of the other specifications, at rest
FnIdle == pc = "idle" /\ iterable = <<>> /\ built = NotBuilt /\ count = 0 /\ bools = <<>>

NoSchema == [cls |-> "none", os |-> NewObjectSchema(None), cs |-> EmptyContainerSchema]

NoCall == [op |-> "none", cls |-> "none", kind |-> "ok", target |-> <<>>, arg |-> <<>>]

\* the entity variables of a specification that has no entities
ObjIdle == dets = <<>> /\ objs = <<>> /\ cur_schema = NoSchema /\ ores = NoCall

NoTimeCall ==
    [op |-> "none", timestamp |-> 0, duration |-> 1, total_frame_count |-> 1, val |-> NoInt]

\* the variables that only one specification uses, at rest
NoContainer == [cls |-> "none", objects |-> <<>>]

NoTrav == [status |-> "idle", got |-> <<>>, disturbed |-> FALSE]

ContIdle == elems = NoContainer /\ schemas = <<>> /\ trav = NoTrav /\ stack = <<>>

ExtIdle == tcall = NoTimeCall /\ ContIdle

\* FrameRanges.__init__ that returned: _idx = 0, _started = False
Init ==
    /\ \E c \in Constructed :
          /\ c.kind = "ok"
          /\ \A i \in 1..Len(c.ranges) : c.ranges[i].last <= MaxFrame
          /\ ranges = c.ranges
    /\ idx = 0
    /\ started = FALSE
    /\ res = Result("init", "ok", -1, <<>>, FALSE)
    /\ yielded = <<>>
    /\ clean = FALSE
    /\ FnIdle /\ ObjIdle /\ ExtIdle

\* FrameRanges.add_range((first, last))
AddRange(first, last) ==
    LET r == IngestRange(ranges, first, last)
    IN  /\ ranges' = r.ranges
        /\ res' = Result("add_range", r.kind, -1, <<first, last>>, FALSE)
        /\ yielded' = <<>>
        /\ clean' = FALSE
        /\ UNCHANGED <<idx, started>>
        /\ UNCHANGED <<fnVars, objVars, extVars>>

\* FrameRanges.simplify()
SimplifyOp ==
    LET r == Simplify(ranges, idx, started)
    IN  /\ ranges' = r.ranges
        /\ idx' = r.idx
        /\ started' = r.started
        /\ res' = Result("simplify", r.kind, -1, <<>>, r.did)
        /\ yielded' = <<>>
        /\ clean' = FALSE
        /\ UNCHANGED <<fnVars, objVars, extVars>>

\* FrameRanges.clear(): _ranges = [] and then reset()
Clear ==
    /\ ranges' = ResetRanges(<<>>, idx)
    /\ idx' = 0
    /\ started' = FALSE
    /\ res' = Result("clear", "ok", -1, <<>>, FALSE)
    /\ yielded' = <<>>
    /\ clean' = FALSE
    /\ UNCHANGED <<fnVars, objVars, extVars>>

\* FrameRanges.reset()
Reset ==
    /\ ranges' = ResetRanges(ranges, idx)
    /\ idx' = 0
    /\ started' = FALSE
    /\ res' = Result("reset", "ok", -1, <<>>, FALSE)
    /\ yielded' = <<>>
    /\ clean' = TRUE
    /\ UNCHANGED <<fnVars, objVars, extVars>>

\* FrameRanges.__iter__(): reset() and return self
Iter ==
    /\ ranges' = ResetRanges(ranges, idx)
    /\ idx' = 0
    /\ started' = FALSE
    /\ res' = Result("iter", "ok", -1, <<>>, FALSE)
    /\ yielded' = <<>>
    /\ clean' = TRUE
    /\ UNCHANGED <<fnVars, objVars, extVars>>

\* FrameRanges.__next__()
Next_ ==
    LET r == NextFrame(ranges, idx)
    IN  /\ started' = TRUE
        /\ ranges' = r.ranges
        /\ idx' = r.idx
        /\ res' = Result("next", r.kind, r.val, <<>>, FALSE)
        /\ yielded' = IF clean /\ r.kind = "ok" THEN Append(yielded, r.val) ELSE yielded
        /\ UNCHANGED clean
        /\ UNCHANGED <<fnVars, objVars, extVars>>

Next ==
    \/ \E first \in Frames, last \in Frames : AddRange(first, last)
    \/ SimplifyOp
    \/ Clear
    \/ Reset
    \/ Iter
    \/ Next_

Spec == Init /\ [][Next]_vars

(***************************************************************************)
(* Properties of FrameRanges                                               *)
(***************************************************************************)
\* C1: every stored range has first >= 1 and last >= first, and each range
\* starts strictly after the end of the one before it.
RangesWellFormed ==
    /\ \A i \in 1..Len(ranges) : ranges[i].first >= 1 /\ ranges[i].last >= ranges[i].first
    /\ \A i \in 1..(Len(ranges) - 1) : ranges[i + 1].first > ranges[i].last

\* a second range was appended to a traversed instance
RangesWellFormedWitness ==
    /\ Len(ranges) >= 2
    /\ res.op = "add_range" /\ res.kind = "ok"
    /\ started

\* C2: add_range on a non-empty instance raises FrameRangesError whenever
\* first <= the current overall last frame, and an add_range that raised
\* changed neither the ranges nor the cursor.
AddRangeRejects ==
    [][res'.op = "add_range" =>
          /\ (ranges # <<>> /\ res'.arg[1] <= ranges[Len(ranges)].last
                  => res'.kind = "FrameRangesError")
          /\ (res'.kind # "ok"
                  => ranges' = ranges /\ idx' = idx /\ started' = started)]_vars

\* add_range was refused in the middle of a traversal
AddRangeRejectsWitness ==
    /\ res.op = "add_range" /\ res.kind = "FrameRangesError"
    /\ started /\ idx < Len(ranges) /\ ranges[idx + 1].frame > 0

\* the ranges of rs that simplify() keeps apart from their predecessor
KeptStarts(rs) ==
    {i \in 1..Len(rs) : i = 1 \/ rs[i].first > rs[i - 1].last + 1}

\* C6: simplify() leaves to_list() unchanged, merges exactly the consecutive
\* ranges with next.first <= prev.last + 1, and leaves every pair of
\* consecutive ranges more than one frame apart.
SimplifyMergesAdjacent ==
    [][res'.op = "simplify" =>
          /\ ToList(ranges') = ToList(ranges)
          /\ Len(ranges') = Cardinality(KeptStarts(ranges))
          /\ {ranges'[i].first : i \in 1..Len(ranges')}
                = {ranges[i].first : i \in KeptStarts(ranges)}
          /\ \A i \in 1..(Len(ranges') - 1) :
                ranges'[i + 1].first > ranges'[i].last + 1]_vars

\* simplify() merged something and still left two ranges
SimplifyMergesAdjacentWitness ==
    res.op = "simplify" /\ res.did /\ Len(ranges) >= 2

\* C7: simplify is idempotent: on the ranges simplify() has just produced,
\* a second simplify() returns the same range tuples.
SimplifyIdempotent ==
    res.op = "simplify" =>
        ToRangeTuples(Simplify(ranges, idx, started).ranges) = ToRangeTuples(ranges)

\* simplify() merged a run into a range of at least three frames
SimplifyIdempotentWitness ==
    /\ res.op = "simplify" /\ res.did
    /\ \E i \in 1..Len(ranges) : ranges[i].last >= ranges[i].first + 2

\* C8: after reset() or iter(), the calls of next() return the frames of
\* to_list(), in increasing order and one per call, and raise StopIteration
\* exactly when all of them have been returned, on every further call too.
TraversalYieldsToList ==
    clean =>
        /\ IsPrefix(yielded, ToList(ranges))
        /\ \A i \in 1..(Len(yielded) - 1) : yielded[i] < yielded[i + 1]
        /\ (res.op = "next" /\ res.kind = "ok"
                => yielded # <<>> /\ res.val = yielded[Len(yielded)])
        /\ (res.op = "next" /\ res.kind = "StopIteration"
                => yielded = ToList(ranges))

\* a traversal crossed from one range to the next and ran to exhaustion
TraversalYieldsToListWitness ==
    /\ clean /\ res.op = "next" /\ res.kind = "StopIteration"
    /\ Len(ranges) >= 2 /\ Len(yielded) >= 3

\* C22: after simplify() returns, on an empty or non-empty instance, before,
\* during or after a traversal, merging or not, the instance is unstarted
\* with cursor index 0 and its frame property is -1.
SimplifyResetsCursor ==
    res.op = "simplify"
        => /\ started = FALSE
           /\ idx = 0
           /\ Frame(ranges, idx, started) = [kind |-> "ok", val |-> -1]

\* C23: in every reachable state reading the frame property does not fail;
\* it is the frame that next has just returned, and -1 when no frame was
\* read since the last reset.
FrameNeverFails ==
    /\ Frame(ranges, idx, started).kind = "ok"
    /\ (res.op = "next" /\ res.kind = "ok") => Frame(ranges, idx, started).val = res.val
    /\ res.op \in {"init", "reset", "iter", "clear"} => Frame(ranges, idx, started).val = -1

(***************************************************************************)
(* SpecIter: FrameRanges.from_iterable on an iterable of frames >= 1       *)
(***************************************************************************)
\* the FrameRanges variables of a specification that has no instance under traversal
FrIdle ==
    /\ idx = 0 /\ started = FALSE /\ res = Result("init", "ok", -1, <<>>, FALSE)
    /\ yielded = <<>> /\ clean = FALSE

InitIter ==
    /\ iterable \in SeqsUpTo(1..MaxFrame, MaxVals)
    /\ pc = "args"
    /\ built = NotBuilt
    /\ count = 0 /\ bools = <<>>
    /\ ranges = <<>> /\ FrIdle /\ ObjIdle /\ ExtIdle

\* FrameRanges.from_iterable(iterable)
FromIterableCall ==
    /\ pc = "args"
    /\ built' = FromIterable(iterable)
    /\ pc' = "built"
    /\ UNCHANGED <<iterable, count, bools>>
    /\ UNCHANGED <<frVars, objVars, extVars>>

NextIter == FromIterableCall

SpecIter == InitIter /\ [][NextIter]_vars

\* the orderings of the multiset of values of s
Orderings(s) ==
    {q \in [1..Len(s) -> Range(s)] :
        \A v \in Range(s) :
            Cardinality({i \in 1..Len(s) : q[i] = v}) = Cardinality({i \in 1..Len(s) : s[i] = v})}

\* C9: from_iterable returns, for every ordering of the same multiset of
\* integers >= 1, the same ranges; their to_list() is the set of the input
\* values and no two consecutive ranges touch or overlap.
FromIterableRuns ==
    pc = "built" =>
        /\ built.kind = "ok"
        /\ \A q \in Orderings(iterable) : FromIterable(q) = built
        /\ Range(ToList(built.ranges)) = Range(iterable)
        /\ Len(ToList(built.ranges)) = Cardinality(Range(iterable))
        /\ \A i \in 1..(Len(built.ranges) - 1) :
              built.ranges[i + 1].first > built.ranges[i].last + 1

(***************************************************************************)
(* SpecBools: to_bools of a FrameRanges and from_bools of the result       *)
(***************************************************************************)
InitBools ==
    /\ \E c \in Constructed :
          /\ c.kind = "ok"
          /\ \A i \in 1..Len(c.ranges) : c.ranges[i].last <= MaxFrame
          /\ ranges = c.ranges
    /\ count \in 1..MaxCount
    /\ pc = "args"
    /\ bools = <<>>
    /\ built = NotBuilt
    /\ iterable = <<>>
    /\ FrIdle /\ ObjIdle /\ ExtIdle

\* bools = s.to_bools(count)
ToBoolsCall ==
    /\ pc = "args"
    /\ bools' = ToBools(ranges, count)
    /\ pc' = "mask"
    /\ UNCHANGED <<iterable, built, count>>
    /\ UNCHANGED <<frVars, objVars, extVars>>

\* FrameRanges.from_bools(bools)
FromBoolsCall ==
    /\ pc = "mask"
    /\ built' = FromBools(bools)
    /\ pc' = "back"
    /\ UNCHANGED <<iterable, count, bools>>
    /\ UNCHANGED <<frVars, objVars, extVars>>

NextBools == ToBoolsCall \/ FromBoolsCall

SpecBools == InitBools /\ [][NextBools]_vars

\* C10: to_bools(n) has length n and its element i is true iff frame i + 1
\* is in s; from_bools of it holds exactly the frames of s that are <= n.
BoolsRoundTrip ==
    /\ pc \in {"mask", "back"} =>
          /\ Len(bools) = count
          /\ \A i \in 0..(count - 1) : bools[i + 1] = ((i + 1) \in Range(ToList(ranges)))
    /\ pc = "back" =>
          /\ built.kind = "ok"
          /\ Range(ToList(built.ranges)) = {f \in Range(ToList(ranges)) : f <= count}

\* a set of two ranges was cut by a total_frame_count below its last frame
BoolsRoundTripWitness ==
    /\ pc = "back" /\ Len(ranges) >= 2
    /\ count < ranges[Len(ranges)].last
    /\ built.ranges # <<>>

(***************************************************************************)
(* SpecSchema: active schemas of entities and containers                   *)
(***************************************************************************)
Labels == {"car", "dog"}

LabelOrNone == Labels \cup {None}

AttrUniverse == {[name |-> "color", value |-> "red"], [name |-> "size", value |-> "big"]}

DetIds == {"d1", "d2"}

SchemaObjIds == {"o1"}

DetFrames == 1..MaxDetFrame

\* the `frames` argument of Object.__init__: empty, or one detection under one frame number
FramesArgs == {<<>>} \cup {<< <<f, d>> >> : f \in DetFrames, d \in DetIds}

\* the heap as one mapping from handles to entities
Heap == [h \in DOMAIN dets \cup DOMAIN objs |-> IF h \in DOMAIN dets THEN dets[h] ELSE objs[h]]

\* the containers that can be made of the entities: a DetectedObjectContainer
\* holds DetectedObjects, an ObjectContainer holds Objects
Containers == SeqsUpTo(DOMAIN dets, MaxElems) \cup SeqsUpTo(DOMAIN objs, MaxElems)

Call(op, cls, kind, target) ==
    [op |-> op, cls |-> cls, kind |-> kind, target |-> target, arg |-> <<>>]

CallArg(op, cls, kind, target, arg) ==
    [op |-> op, cls |-> cls, kind |-> kind, target |-> target, arg |-> arg]

\* DetectedObject(label=...) and Object(label=..., frames=...)
InitSchema ==
    /\ dets \in [DetIds -> {NewDetectedObject(l, NoInt, {}) : l \in LabelOrNone}]
    /\ objs \in [SchemaObjIds ->
                    {NewObject(l, None, {}, fr, {}, NoSupport) : l \in LabelOrNone, fr \in FramesArgs}]
    /\ cur_schema = NoSchema
    /\ ores = NoCall
    /\ pc = "data"
    /\ iterable = <<>> /\ built = NotBuilt /\ count = 0 /\ bools = <<>>
    /\ ranges = <<>> /\ FrIdle /\ ExtIdle

\* DetectedObject.add_attribute(attr)
DetAddAttribute(d, a) ==
    /\ pc = "data"
    /\ dets' = [dets EXCEPT ![d].attrs = @ \cup {a}]
    /\ ores' = Call("add_attribute", "DetectedObject", "ok", <<d>>)
    /\ UNCHANGED <<objs, cur_schema, pc>>
    /\ UNCHANGED <<frVars, iterable, built, count, bools, extVars>>

\* Object.add_object_attribute(attr)
ObjAddObjectAttribute(o, a) ==
    /\ pc = "data"
    /\ objs' = [objs EXCEPT ![o].attrs = @ \cup {a}]
    /\ ores' = Call("add_object_attribute", "Object", "ok", <<o>>)
    /\ UNCHANGED <<dets, cur_schema, pc>>
    /\ UNCHANGED <<frVars, iterable, built, count, bools, extVars>>

\* dict assignment frames[key] = handle: an existing key keeps its position
DictSet(frames, key, handle) ==
    IF \E i \in 1..Len(frames) : frames[i][1] = key
    THEN [i \in 1..Len(frames) |-> IF frames[i][1] = key THEN <<key, handle>> ELSE frames[i]]
    ELSE Append(frames, <<key, handle>>)

\* Object.add_detection, mutated: the label is cleared before the frame
\* number is looked at
Object_add_detection_clears_first(d, ob, o, h, fn) ==
    IF fn = NoInt /\ d[h].frame_number = NoInt
    THEN [kind |-> "ValueError", dets |-> [d EXCEPT ![h].label = None], objs |-> ob]
    ELSE LET key == IF fn # NoInt THEN fn ELSE d[h].frame_number
         IN  [kind |-> "ok",
              dets |-> [d EXCEPT ![h].frame_number = key, ![h].label = None],
              objs |-> [ob EXCEPT ![o].frames = DictSet(@, key[1], h)]]

\* Object.add_detection, mutated: the label of the detection is kept
Object_add_detection_keeps_label(d, ob, o, h, fn) ==
    IF fn = NoInt /\ d[h].frame_number = NoInt
    THEN [kind |-> "ValueError", dets |-> d, objs |-> ob]
    ELSE LET key == IF fn # NoInt THEN fn ELSE d[h].frame_number
         IN  [kind |-> "ok",
              dets |-> [d EXCEPT ![h].frame_number = key],
              objs |-> [ob EXCEPT ![o].frames = DictSet(@, key[1], h)]]

\* Object.add_detection(obj, frame_number) on the Object o and the
\* DetectedObject h: fn is NoInt when frame_number is omitted
Object_add_detection(d, ob, o, h, fn) ==
    IF fn = NoInt /\ d[h].frame_number = NoInt
    THEN [kind |-> "ValueError", dets |-> d, objs |-> ob]
    ELSE LET key == IF fn # NoInt THEN fn ELSE d[h].frame_number
         IN  [kind |-> "ok",
              dets |-> [d EXCEPT ![h].frame_number = key, ![h].label = None],
              objs |-> [ob EXCEPT ![o].frames = DictSet(@, key[1], h)]]

RECURSIVE Object_add_detections(_, _, _, _)
\* Object.add_detections(objects): `for obj in objects: self.add_detection(obj)`
Object_add_detections(d, ob, o, handles) ==
    IF handles = <<>> THEN [kind |-> "ok", dets |-> d, objs |-> ob]
    ELSE LET r == Object_add_detection(d, ob, o, Head(handles), NoInt)
         IN  IF r.kind # "ok" THEN r
             ELSE Object_add_detections(r.dets, r.objs, o, Tail(handles))

\* list(self.frames.keys())
FrameKeys(obj) == [i \in 1..Len(obj.frames) |-> obj.frames[i][1]]

\* Object.support, mutated: the explicit support is ignored
Object_support_inferred(obj) == FromIterable(FrameKeys(obj))

\* Object.support: the explicit support, else FrameRanges.from_iterable(frames.keys())
Object_support(obj) ==
    IF obj.support # NoSupport THEN [kind |-> "ok", ranges |-> obj.support[1]]
    ELSE FromIterable(FrameKeys(obj))

\* Object.add_detection(obj, frame_number): fn is NoInt when frame_number is omitted
ObjAddDetection(o, d, fn) ==
    /\ pc = "data"
    /\ LET r == Object_add_detection(dets, objs, o, d, fn)
       IN  /\ dets' = r.dets
           /\ objs' = r.objs
           /\ ores' = CallArg("add_detection", "Object", r.kind, <<o, d>>,
                              [frame_number |-> fn, label |-> dets[d].label])
    /\ UNCHANGED <<cur_schema, pc>>
    /\ UNCHANGED <<frVars, iterable, built, count, bools, extVars>>

\* schema = ObjectSchema.build_active_schema(obj) for an Object or a DetectedObject
BuildObjectSchema(h) ==
    /\ pc = "data"
    /\ LET r == ObjectSchema_build_active_schema(Heap[h], Heap)
       IN  /\ cur_schema' = IF r.kind = "ok"
                             THEN [cls |-> "ObjectSchema", os |-> r.schema,
                                   cs |-> EmptyContainerSchema]
                             ELSE NoSchema
           /\ ores' = Call("build_active_schema", "ObjectSchema", r.kind, <<h>>)
    /\ pc' = "schema"
    /\ UNCHANGED <<dets, objs>>
    /\ UNCHANGED <<frVars, iterable, built, count, bools, extVars>>

\* schema = ObjectContainerSchema.build_active_schema(container)
BuildContainerSchema(c) ==
    /\ pc = "data"
    /\ cur_schema' = [cls |-> "ObjectContainerSchema", os |-> NewObjectSchema(None),
                      cs |-> ContainerSchema_build_active_schema(c, Heap)]
    /\ ores' = Call("build_active_schema", "ObjectContainerSchema", "ok", c)
    /\ pc' = "schema"
    /\ UNCHANGED <<dets, objs>>
    /\ UNCHANGED <<frVars, iterable, built, count, bools, extVars>>

\* schema.validate(obj) / schema.validate(container) on what the schema was built from
ValidateSource ==
    /\ pc = "schema"
    /\ ores.kind = "ok"
    /\ ores' = Call("validate", cur_schema.cls,
                    IF cur_schema.cls = "ObjectSchema"
                    THEN ObjectSchema_validate(cur_schema.os, Heap[ores.target[1]], Heap)
                    ELSE ContainerSchema_validate(cur_schema.cs, ores.target, Heap),
                    ores.target)
    /\ pc' = "validated"
    /\ UNCHANGED <<dets, objs, cur_schema>>
    /\ UNCHANGED <<frVars, iterable, built, count, bools, extVars>>

NextSchema ==
    \/ \E d \in DOMAIN dets, a \in AttrUniverse : DetAddAttribute(d, a)
    \/ \E o \in DOMAIN objs, a \in AttrUniverse : ObjAddObjectAttribute(o, a)
    \/ \E o \in DOMAIN objs, d \in DOMAIN dets, fn \in {NoInt} \cup {<<k>> : k \in DetFrames} :
          ObjAddDetection(o, d, fn)
    \/ \E h \in DOMAIN dets \cup DOMAIN objs : BuildObjectSchema(h)
    \/ \E c \in Containers : BuildContainerSchema(c)
    \/ ValidateSource

SpecSchema == InitSchema /\ [][NextSchema]_vars

\* C3: for every Object or DetectedObject, ObjectSchema.build_active_schema
\* completes and validate() of the returned schema on the same entity does not fail.
ObjectSchemaValidatesSource ==
    ores.cls = "ObjectSchema" /\ ores.op \in {"build_active_schema", "validate"}
        => ores.kind = "ok"

\* C4: for every ObjectContainer or DetectedObjectContainer,
\* ObjectContainerSchema.build_active_schema completes and validate() of the
\* returned schema on the same container does not fail.
ContainerSchemaValidatesSource ==
    ores.cls = "ObjectContainerSchema" /\ ores.op \in {"build_active_schema", "validate"}
        => ores.kind = "ok"

(***************************************************************************)
(* SpecFilter: Object.filter_by_schema with child objects                  *)
(***************************************************************************)
FilterObjIds == {"o1", "o2", "o3"}

\* the Objects that are given children and filtered
FilterParents == {"o1"}

UuidOf(h) == CASE h = "o1" -> "u1" [] h = "o2" -> "u2" [] h = "o3" -> "u3"

\* the attribute collections and declarations of this specification
FilterAttrs == {{}, {[name |-> "color", value |-> "red"]}}

\* ObjectContainerSchemas over Labels whose entries were made for their own label
ChildSchemas ==
    UNION {[ls -> FilterAttrs] : ls \in SUBSET Labels}

\* ObjectSchema(label, attrs=..., child_objects=...)
FilterSchemas ==
    {[label |-> l, attrs |-> a, frames |-> EmptyAttrSchema,
      child_objects |-> [cl \in DOMAIN c |->
                            [NewObjectSchema(cl) EXCEPT !.attrs = c[cl]]]] :
        l \in Labels, a \in FilterAttrs, c \in ChildSchemas}

\* lookup tables {obj.uuid: obj} over some of the Objects; the empty one is None
Lookups ==
    {[u \in {UuidOf(h) : h \in hs} |-> CHOOSE h \in hs : UuidOf(h) = u] :
        hs \in SUBSET FilterObjIds}

\* the orders in which a set can be iterated
Orders(S) == {q \in [1..Cardinality(S) -> S] : Range(q) = S}

InitFilter ==
    /\ dets = <<>>
    /\ \E l1 \in Labels, a1 \in FilterAttrs, l2 \in LabelOrNone, a2 \in FilterAttrs,
          l3 \in LabelOrNone, a3 \in FilterAttrs :
          objs = [h \in FilterObjIds |->
                    CASE h = "o1" -> NewObject(l1, UuidOf(h), a1, <<>>, {}, NoSupport)
                      [] h = "o2" -> NewObject(l2, UuidOf(h), a2, <<>>, {}, NoSupport)
                      [] h = "o3" -> NewObject(l3, UuidOf(h), a3, <<>>, {}, NoSupport)]
    /\ \E sc \in FilterSchemas :
          cur_schema = [cls |-> "ObjectSchema", os |-> sc, cs |-> EmptyContainerSchema]
    /\ ores = NoCall
    /\ pc = "data"
    /\ iterable = <<>> /\ built = NotBuilt /\ count = 0 /\ bools = <<>>
    /\ ranges = <<>> /\ FrIdle /\ ExtIdle

\* Object.add_child_object(obj)
ObjAddChildObject(o, c) ==
    /\ pc = "data"
    /\ IF objs[c].uuid = None
       THEN /\ ores' = Call("add_child_object", "Object", "ValueError", <<o, c>>)
            /\ UNCHANGED objs
       ELSE /\ objs' = [objs EXCEPT ![o].child_objects = @ \cup {objs[c].uuid}]
            /\ ores' = Call("add_child_object", "Object", "ok", <<o, c>>)
    /\ UNCHANGED <<dets, cur_schema, pc>>
    /\ UNCHANGED <<frVars, iterable, built, count, bools, extVars>>

\* obj.filter_by_schema(schema, objects), the set of children iterated in `order`
FilterBySchema(o, objects, order) ==
    /\ pc = "data"
    /\ LET r == Object_filter_by_schema(dets, objs, o, cur_schema.os, objects, order)
       IN  /\ dets' = r.dets
           /\ objs' = r.objs
           /\ ores' = CallArg("filter_by_schema", "Object", r.kind, <<o>>,
                              [objects |-> objects, children |-> objs[o].child_objects,
                               label |-> objs[o].label, dets |-> dets])
    /\ pc' = "filtered"
    /\ UNCHANGED cur_schema
    /\ UNCHANGED <<frVars, iterable, built, count, bools, extVars>>

NextFilter ==
    \/ \E o \in FilterParents, c \in DOMAIN objs : ObjAddChildObject(o, c)
    \/ \E o \in FilterParents, objects \in Lookups :
          \E order \in Orders(objs[o].child_objects) : FilterBySchema(o, objects, order)

SpecFilter == InitFilter /\ [][NextFilter]_vars

\* the label of the Object a uuid refers to is declared by the child-object schema
ChildDeclared(objects, uuid) ==
    has_object_label(cur_schema.os.child_objects, objs[objects[uuid]].label)

\* C5: with a non-empty lookup table, filter_by_schema of an Object whose
\* label matches the schema completes; afterwards child_objects holds no
\* identifier found in the lookup whose Object's label the child-object
\* schema does not declare, and the other identifiers are all kept.
FilterRemovesUndeclaredChildren ==
    (/\ ores.op = "filter_by_schema"
     /\ ores.arg.objects # <<>>
     /\ ores.arg.label = cur_schema.os.label)
        => LET o == ores.target[1]
               objects == ores.arg.objects
           IN  /\ ores.kind = "ok"
               /\ \A u \in objs[o].child_objects :
                     u \in DOMAIN objects => ChildDeclared(objects, u)
               /\ \A u \in ores.arg.children :
                     (u \notin DOMAIN objects \/ ChildDeclared(objects, u))
                         => u \in objs[o].child_objects

(***************************************************************************)
(* SpecTime: timestamp_to_frame_number.  Timestamps and durations are      *)
(* multiples of half a second, written as their number of half seconds,    *)
(* so that alpha * (total_frame_count - 1) is the exact quotient p / q.    *)
(***************************************************************************)
\* round(p / q) that rounds a half-way value up, q > 0, p >= 0
RoundQuotient_half_up(p, q) ==
    IF 2 * (p % q) < q THEN p \div q ELSE (p \div q) + 1

\* round(p / q) of Python 3 and of `from builtins import *`: to the nearest
\* integer, a half-way value to the even one; q > 0, p >= 0
RoundQuotient(p, q) ==
    IF 2 * (p % q) < q THEN p \div q
    ELSE IF 2 * (p % q) > q THEN (p \div q) + 1
    ELSE IF (p \div q) % 2 = 0 THEN p \div q ELSE (p \div q) + 1

\* timestamp_to_frame_number(timestamp, duration, total_frame_count)
timestamp_to_frame_number(timestamp, duration, total_frame_count) ==
    1 + RoundQuotient(timestamp * (total_frame_count - 1), duration)

InitTime ==
    /\ \E t \in 0..MaxTicks, d \in 1..MaxTicks, n \in 1..MaxFrameCount :
          tcall = [op |-> "args", timestamp |-> t, duration |-> d,
                   total_frame_count |-> n, val |-> NoInt]
    /\ ranges = <<>> /\ FrIdle /\ FnIdle /\ ObjIdle /\ ContIdle

TimestampToFrameNumber ==
    /\ tcall.op = "args"
    /\ tcall' = [tcall EXCEPT
                   !.op = "timestamp_to_frame_number",
                   !.val = <<timestamp_to_frame_number(tcall.timestamp, tcall.duration,
                                                       tcall.total_frame_count)>>]
    /\ UNCHANGED <<frVars, fnVars, objVars, elems, schemas, trav, stack>>

NextTime == TimestampToFrameNumber

SpecTime == InitTime /\ [][NextTime]_vars

\* twice the distance, in units of 1/duration, between the returned frame
\* number minus one and (timestamp/duration) * (total_frame_count - 1)
TwiceOff ==
    LET e == tcall.duration * (tcall.val[1] - 1)
               - tcall.timestamp * (tcall.total_frame_count - 1)
    IN  IF e < 0 THEN 2 * (0 - e) ELSE 2 * e

\* the call timestamp_to_frame_number(4.5, 9.0, 10) has returned
HalfWayCall ==
    /\ tcall.op = "timestamp_to_frame_number"
    /\ tcall.timestamp = 9 /\ tcall.duration = 18 /\ tcall.total_frame_count = 10

\* C11 as stated: timestamp_to_frame_number returns 1 plus the integer nearest
\* to (timestamp/duration) * (total_frame_count-1), and
\* timestamp_to_frame_number(4.5, 9.0, 10) returns 6.
TimestampHalfWayIsSix ==
    tcall.op = "timestamp_to_frame_number"
        => /\ TwiceOff <= tcall.duration
           /\ HalfWayCall => tcall.val = <<6>>

\* C11, amended: timestamp_to_frame_number returns 1 plus the integer nearest
\* to (timestamp/duration) * (total_frame_count-1), the even one of the two
\* when the value is half-way; timestamp_to_frame_number(4.5, 9.0, 10)
\* returns 5.
TimestampRoundsHalfEven ==
    tcall.op = "timestamp_to_frame_number"
        => /\ TwiceOff <= tcall.duration
           /\ TwiceOff = tcall.duration => (tcall.val[1] - 1) % 2 = 0
           /\ HalfWayCall => tcall.val = <<5>>

TimestampRoundsHalfEvenWitness == HalfWayCall /\ tcall.val = <<5>>

(***************************************************************************)
(* SpecFilterDet: Object.filter_by_schema on an Object with detections     *)
(***************************************************************************)
\* frame_number of DetectedObject.__init__ and of add_detection: None or a frame
FrameNumberArgs == {NoInt} \cup {<<k>> : k \in DetFrames}

\* ObjectSchema(label, attrs=..., frames=...)
FilterDetSchemas ==
    {[NewObjectSchema(l) EXCEPT !.attrs = a, !.frames = f] :
        l \in Labels, a \in FilterAttrs, f \in FilterAttrs}

\* d = DetectedObject(label=..., attrs=...), o1 = Object(label="car", frames=...)
InitFilterDet ==
    /\ dets \in [DetIds -> {NewDetectedObject(l, NoInt, a) :
                                l \in LabelOrNone, a \in FilterAttrs}]
    /\ \E fr \in FramesArgs :
          objs = [h \in {"o1"} |-> NewObject("car", None, {}, fr, {}, NoSupport)]
    /\ \E sc \in FilterDetSchemas :
          cur_schema = [cls |-> "ObjectSchema", os |-> sc, cs |-> EmptyContainerSchema]
    /\ ores = NoCall
    /\ pc = "data"
    /\ iterable = <<>> /\ built = NotBuilt /\ count = 0 /\ bools = <<>>
    /\ ranges = <<>> /\ FrIdle /\ ExtIdle

NextFilterDet ==
    \/ \E d \in DOMAIN dets, fn \in FrameNumberArgs : ObjAddDetection("o1", d, fn)
    \/ FilterBySchema("o1", <<>>, <<>>)

SpecFilterDet == InitFilterDet /\ [][NextFilterDet]_vars

\* the handles of the DetectedObjects held in the frames of the filtered Object
FilteredDetections == Range(IterDetections(objs[ores.target[1]]))

\* C15 as stated: filter_by_schema(schema) on an Object whose own label
\* matches the schema does not fail, whatever labels the DetectedObjects in
\* its frames carry, and leaves each of them with the attributes that the
\* schema's frame-level declarations allow.
FilterIgnoresDetectionLabels ==
    (ores.op = "filter_by_schema" /\ ores.arg.label = cur_schema.os.label)
        => /\ ores.kind = "ok"
           /\ \A h \in FilteredDetections :
                 dets[h].attrs = ores.arg.dets[h].attrs \cap cur_schema.os.frames

\* C15, amended: filter_by_schema(schema) on an Object whose own label
\* matches the schema accepts DetectedObjects without a label, but fails with
\* a schema error when a DetectedObject in its frames carries a label other
\* than the schema's; when none does, it leaves each of them with the
\* attributes that the schema's frame-level declarations allow.
FilterChecksDetectionLabels ==
    (ores.op = "filter_by_schema" /\ ores.arg.label = cur_schema.os.label)
        => IF \A h \in FilteredDetections :
                  ores.arg.dets[h].label \in {None, cur_schema.os.label}
           THEN /\ ores.kind = "ok"
                /\ \A h \in FilteredDetections :
                      dets[h].attrs = ores.arg.dets[h].attrs \cap cur_schema.os.frames
           ELSE ores.kind = "ObjectSchemaError"

FilterChecksDetectionLabelsWitness ==
    /\ ores.op = "filter_by_schema"
    /\ ores.kind = "ok"
    /\ Len(objs["o1"].frames) = 2
    /\ \E h \in FilteredDetections :
          ores.arg.dets[h].label = None /\ dets[h].attrs # ores.arg.dets[h].attrs
    /\ \E h \in FilteredDetections : ores.arg.dets[h].label = cur_schema.os.label

(***************************************************************************)
(* SpecContFilter: filter_by_schema of the two containers                  *)
(***************************************************************************)
\* ObjectContainerSchemas over labels and None whose entries were made by
\* add_object_label and the add_*_attribute calls for their own label
FilterContainerSchemas ==
    UNION {[ls -> FilterAttrs \X FilterAttrs] : ls \in SUBSET LabelOrNone}

ContainerSchemaOf(c) ==
    [l \in DOMAIN c |-> [NewObjectSchema(l) EXCEPT !.attrs = c[l][1], !.frames = c[l][2]]]

\* DetectedObjectContainer(objects=[...]) of DetectedObject(label, attrs)
InitDetContainer ==
    /\ dets \in [DetIds -> {NewDetectedObject(l, NoInt, a) :
                                l \in LabelOrNone, a \in FilterAttrs}]
    /\ objs = <<>>
    /\ \E c \in SeqsUpTo(DetIds, MaxElems) :
          elems = [cls |-> "DetectedObjectContainer", objects |-> c]
    /\ \E c \in FilterContainerSchemas :
          /\ \A l \in DOMAIN c : c[l][1] = {}
          /\ cur_schema = [cls |-> "ObjectContainerSchema", os |-> NewObjectSchema(None),
                           cs |-> ContainerSchemaOf(c)]

\* ObjectContainer(objects=[...]) of Object(label, attrs, frames)
InitObjContainer ==
    /\ dets \in [{"d1"} -> {NewDetectedObject(l, NoInt, a) :
                                l \in LabelOrNone, a \in FilterAttrs}]
    /\ \E l1 \in LabelOrNone, a1 \in FilterAttrs, fr \in {<<>>, << <<1, "d1">> >>},
          l2 \in LabelOrNone :
          objs = [h \in {"o1", "o2"} |->
                    IF h = "o1" THEN NewObject(l1, None, a1, fr, {}, NoSupport)
                    ELSE NewObject(l2, None, {}, <<>>, {}, NoSupport)]
    /\ \E c \in SeqsUpTo({"o1", "o2"}, MaxElems) :
          elems = [cls |-> "ObjectContainer", objects |-> c]
    /\ \E c \in FilterContainerSchemas :
          cur_schema = [cls |-> "ObjectContainerSchema", os |-> NewObjectSchema(None),
                        cs |-> ContainerSchemaOf(c)]

InitContFilter ==
    /\ InitDetContainer \/ InitObjContainer
    /\ ores = NoCall
    /\ pc = "data"
    /\ iterable = <<>> /\ built = NotBuilt /\ count = 0 /\ bools = <<>>
    /\ ranges = <<>> /\ FrIdle
    /\ tcall = NoTimeCall /\ schemas = <<>> /\ trav = NoTrav /\ stack = <<>>

\* container.filter_by_schema(schema), container a DetectedObjectContainer
DetContainerFilterBySchema ==
    /\ pc = "data"
    /\ elems.cls = "DetectedObjectContainer"
    /\ LET r == DetectedObjectContainer_filter_by_schema(dets, elems.objects, cur_schema.cs)
       IN  /\ dets' = r.dets
           /\ elems' = [elems EXCEPT !.objects = r.objects]
           /\ ores' = CallArg("filter_by_schema", elems.cls, r.kind, elems.objects,
                              [dets |-> dets, objs |-> objs])
    /\ pc' = "filtered"
    /\ UNCHANGED <<objs, cur_schema>>
    /\ UNCHANGED <<frVars, iterable, built, count, bools, tcall, schemas, trav, stack>>

\* container.filter_by_schema(schema), container an ObjectContainer
ObjContainerFilterBySchema ==
    /\ pc = "data"
    /\ elems.cls = "ObjectContainer"
    /\ LET r == ObjectContainer_filter_by_schema(dets, objs, elems.objects, cur_schema.cs)
       IN  /\ dets' = r.dets
           /\ objs' = r.objs
           /\ elems' = [elems EXCEPT !.objects = r.objects]
           /\ ores' = CallArg("filter_by_schema", elems.cls, r.kind, elems.objects,
                              [dets |-> dets, objs |-> objs])
    /\ pc' = "filtered"
    /\ UNCHANGED cur_schema
    /\ UNCHANGED <<frVars, iterable, built, count, bools, tcall, schemas, trav, stack>>

\* schema.validate(container), after container.filter_by_schema(schema) returned
ValidateFiltered ==
    /\ pc = "filtered"
    /\ ores.kind = "ok"
    /\ ores' = Call("validate", "ObjectContainerSchema",
                    ContainerSchema_validate(cur_schema.cs, elems.objects, Heap), elems.objects)
    /\ pc' = "validated"
    /\ UNCHANGED <<dets, objs, cur_schema, elems>>
    /\ UNCHANGED <<frVars, iterable, built, count, bools, tcall, schemas, trav, stack>>

NextContFilter == DetContainerFilterBySchema \/ ObjContainerFilterBySchema \/ ValidateFiltered

SpecContFilter == InitContFilter /\ [][NextContFilter]_vars

RECURSIVE DeclaredInOrder(_, _)
\* the handles of a container whose entity has a label the schema declares,
\* in the container's order
DeclaredInOrder(handles, labelOf) ==
    IF handles = <<>> THEN <<>>
    ELSE IF labelOf[Head(handles)] \in DOMAIN cur_schema.cs
         THEN <<Head(handles)>> \o DeclaredInOrder(Tail(handles), labelOf)
         ELSE DeclaredInOrder(Tail(handles), labelOf)

\* C16: filter_by_schema of a DetectedObjectContainer or ObjectContainer does
\* not raise; the container then holds, in their original order, exactly the
\* entities whose label the container schema declares, and each of them has
\* been filtered by the ObjectSchema declared for its label.
ContainerFilterNeverRaises ==
    (ores.op = "filter_by_schema" /\ pc = "filtered")
        => /\ ores.kind = "ok"
           /\ IF ores.cls = "DetectedObjectContainer"
              THEN /\ elems.objects =
                        DeclaredInOrder(ores.target, [h \in DOMAIN dets |-> dets[h].label])
                   /\ \A h \in Range(elems.objects) :
                         dets[h].attrs =
                            ores.arg.dets[h].attrs \cap cur_schema.cs[dets[h].label].frames
              ELSE /\ elems.objects =
                        DeclaredInOrder(ores.target, [h \in DOMAIN objs |-> objs[h].label])
                   /\ \A h \in Range(elems.objects) :
                         /\ objs[h].attrs =
                               ores.arg.objs[h].attrs \cap cur_schema.cs[objs[h].label].attrs
                         /\ \A k \in Range(IterDetections(objs[h])) :
                               dets[k].attrs = ores.arg.dets[k].attrs
                                                  \cap cur_schema.cs[objs[h].label].frames

\* C27: after container.filter_by_schema(schema) returns for a
\* DetectedObjectContainer or ObjectContainer, schema.validate(container) does
\* not fail.
FilteredContainerValidates ==
    ores.op = "validate" => ores.kind = "ok"

\* a filtered container that kept an element and lost an attribute validates
FilteredContainerValidatesWitness ==
    /\ ores.op = "validate" /\ ores.kind = "ok"
    /\ elems.objects # <<>>
    /\ \E h \in Range(elems.objects) :
          \/ /\ elems.cls = "DetectedObjectContainer"
             /\ dets[h].attrs # {}
             /\ cur_schema.cs[dets[h].label].frames # AttrUniverse
          \/ /\ elems.cls = "ObjectContainer"
             /\ objs[h].frames # <<>>

(***************************************************************************)
(* SpecSchemaOps: subset checks and merges of schemas                      *)
(***************************************************************************)
Color == [name |-> "color", value |-> "red"]

Size == [name |-> "size", value |-> "big"]

\* a child-object schema that declares the label dog with the given attributes
DogChild(attrs) == [l \in {"dog"} |-> [NewObjectSchema(l) EXCEPT !.attrs = attrs]]

\* what the add_* calls on an ObjectSchema can have declared: object-level
\* attributes, frame-level attributes, child objects
EntryChoices ==
    { <<{}, {}, EmptyContainerSchema>>,
      <<{Color}, {}, EmptyContainerSchema>>,
      <<{Size}, {Color}, EmptyContainerSchema>>,
      <<{}, {}, DogChild({})>>,
      <<{Color}, {}, DogChild({Color})>> }

\* ObjectContainerSchemas over Labels built by add_* calls
OpsContainerSchemas ==
    {[l \in DOMAIN c |-> [NewObjectSchema(l) EXCEPT !.attrs = c[l][1], !.frames = c[l][2],
                                                  !.child_objects = c[l][3]]] :
        c \in UNION {[ls -> EntryChoices] : ls \in SUBSET Labels}}

InitSchemaOps ==
    /\ schemas \in [{"a", "b", "c"} -> OpsContainerSchemas]
    /\ pc = "data"
    /\ ObjIdle
    /\ iterable = <<>> /\ built = NotBuilt /\ count = 0 /\ bools = <<>>
    /\ ranges = <<>> /\ FrIdle
    /\ tcall = NoTimeCall /\ elems = NoContainer /\ trav = NoTrav /\ stack = <<>>

\* a.validate_subset_of_schema(b), the labels of a visited in the order `labels`
ValidateSubset(labels) ==
    /\ pc = "data"
    /\ ores' = CallArg("validate_subset_of_schema", "ObjectContainerSchema",
                       ContainerSchema_validate_subset_of_schema(schemas.a, labels, schemas.b),
                       <<"a", "b">>, <<>>)
    /\ pc' = "done"
    /\ UNCHANGED <<dets, objs, cur_schema, schemas>>
    /\ UNCHANGED <<frVars, iterable, built, count, bools, tcall, elems, trav, stack>>

\* on copies of a, b and c: a.merge_schema(b); b.merge_schema(a);
\* a.merge_schema(b) then a.merge_schema(c); b.merge_schema(c) then
\* a.merge_schema(b)
MergeSchemas ==
    /\ pc = "data"
    /\ LET ab == ContainerSchema_merge_schema(schemas.a, schemas.b)
           ba == ContainerSchema_merge_schema(schemas.b, schemas.a)
           bc == ContainerSchema_merge_schema(schemas.b, schemas.c)
           ab_c == ContainerSchema_merge_schema(ab.schema, schemas.c)
           a_bc == ContainerSchema_merge_schema(schemas.a, bc.schema)
       IN  ores' = CallArg("merge_schema", "ObjectContainerSchema",
                           IF {ab.kind, ba.kind, bc.kind, ab_c.kind, a_bc.kind} = {"ok"}
                           THEN "ok" ELSE "ObjectSchemaError",
                           <<"a", "b", "c">>,
                           [ab |-> ab.schema, ba |-> ba.schema,
                            ab_c |-> ab_c.schema, a_bc |-> a_bc.schema])
    /\ pc' = "done"
    /\ UNCHANGED <<dets, objs, cur_schema, schemas>>
    /\ UNCHANGED <<frVars, iterable, built, count, bools, tcall, elems, trav, stack>>

\* a.get_object_schema(l1).merge_schema(b.get_object_schema(l2))
MergeObjectSchema(l1, l2) ==
    /\ pc = "data"
    /\ LET r == ObjectSchema_merge_schema(schemas.a[l1], schemas.b[l2])
       IN  /\ schemas' = [schemas EXCEPT !.a[l1] = r.schema]
           /\ ores' = CallArg("merge_schema", "ObjectSchema", r.kind, <<l1, l2>>,
                              [before |-> schemas.a[l1], other |-> schemas.b[l2]])
    /\ pc' = "done"
    /\ UNCHANGED <<dets, objs, cur_schema>>
    /\ UNCHANGED <<frVars, iterable, built, count, bools, tcall, elems, trav, stack>>

\* a0 = copy of a; a.merge_schema(b); b.validate_subset_of_schema(a);
\* a0.validate_subset_of_schema(a), the loops of the two checks visiting the
\* labels in the orders lb and la
MergeThenSubset(lb, la) ==
    /\ pc = "data"
    /\ LET r == ContainerSchema_merge_schema(schemas.a, schemas.b)
       IN  /\ schemas' = [schemas EXCEPT !.a = r.schema]
           /\ ores' = CallArg("merge_then_subset", "ObjectContainerSchema", r.kind,
                    <<"a", "b">>,
                    [before |-> schemas.a,
                     b_in |-> ContainerSchema_validate_subset_of_schema(schemas.b, lb, r.schema),
                     a_in |-> ContainerSchema_validate_subset_of_schema(schemas.a, la, r.schema)])
    /\ pc' = "done"
    /\ UNCHANGED <<dets, objs, cur_schema>>
    /\ UNCHANGED <<frVars, iterable, built, count, bools, tcall, elems, trav, stack>>

NextSchemaOps ==
    \/ \E labels \in Orders(DOMAIN schemas.a) : ValidateSubset(labels)
    \/ \E lb \in Orders(DOMAIN schemas.b), la \in Orders(DOMAIN schemas.a) : MergeThenSubset(lb, la)
    \/ MergeSchemas
    \/ \E l1 \in DOMAIN schemas.a, l2 \in DOMAIN schemas.b : MergeObjectSchema(l1, l2)

SpecSchemaOps == InitSchemaOps /\ [][NextSchemaOps]_vars

\* the labels a container schema declares, at the top or in a child-object schema
DeclaredAnywhere(cs) == DOMAIN cs \cup UNION {DOMAIN cs[l].child_objects : l \in DOMAIN cs}

\* every label of a is in b, with object-level and frame-level attributes
\* that b declares too
TopLevelContained(a, b) ==
    \A l \in DOMAIN a :
        /\ l \in DOMAIN b
        /\ a[l].attrs \subseteq b[l].attrs
        /\ a[l].frames \subseteq b[l].frames

\* C17: when a.validate_subset_of_schema(b) succeeds, every label that a
\* declares, also in the child-object schemas of its ObjectSchemas, and
\* every object-level and frame-level attribute of a is declared in b; and it
\* succeeds whenever that holds, whatever else b declares.
SubsetChecksContainment ==
    ores.op = "validate_subset_of_schema"
        => /\ ores.kind = "ok" =>
                 /\ TopLevelContained(schemas.a, schemas.b)
                 /\ DeclaredAnywhere(schemas.a) \subseteq DeclaredAnywhere(schemas.b)
           /\ ores.kind # "ok" => ~TopLevelContained(schemas.a, schemas.b)

\* C18: merge_schema of ObjectContainerSchemas is commutative and
\* associative: a merged with b declares what b merged with a declares, and
\* (a with b) with c what a with (b with c) declares.
MergeCommutesAssociates ==
    (ores.op = "merge_schema" /\ ores.cls = "ObjectContainerSchema")
        => /\ ores.kind = "ok"
           /\ ores.arg.ab = ores.arg.ba
           /\ ores.arg.ab_c = ores.arg.a_bc

MergeCommutesAssociatesWitness ==
    /\ ores.op = "merge_schema" /\ ores.cls = "ObjectContainerSchema"
    /\ "car" \in DOMAIN schemas.a /\ "car" \in DOMAIN schemas.b /\ "car" \in DOMAIN schemas.c
    /\ schemas.a["car"].attrs = {Color}
    /\ schemas.b["car"].attrs = {Size}
    /\ schemas.c["car"].child_objects # EmptyContainerSchema
    /\ "dog" \in DOMAIN schemas.b /\ "dog" \notin DOMAIN schemas.a
    /\ ores.arg.ab_c["car"].attrs = {Color, Size}
    /\ "dog" \in DOMAIN ores.arg.ab_c["car"].child_objects

\* the attributes that a child-object schema declares for a label, none
\* when it does not declare the label
ChildAttrs(cs, l) == IF l \in DOMAIN cs THEN cs[l].attrs ELSE {}

\* C20: ObjectSchema.merge_schema(other) fails with a schema error when the
\* labels differ, and the receiver's object-attribute, frame-attribute and
\* child-object declarations are then unchanged; when the labels are equal
\* it unions the attribute declarations and merges the child schemas.
ObjectSchemaMergeChecksLabel ==
    (ores.op = "merge_schema" /\ ores.cls = "ObjectSchema")
        => LET recv == ores.arg.before
               other == ores.arg.other
               after == schemas.a[ores.target[1]]
           IN  IF recv.label # other.label
               THEN /\ ores.kind = "ObjectSchemaError"
                    /\ after.attrs = recv.attrs
                    /\ after.frames = recv.frames
                    /\ after.child_objects = recv.child_objects
               ELSE /\ ores.kind = "ok"
                    /\ after.attrs = recv.attrs \cup other.attrs
                    /\ after.frames = recv.frames \cup other.frames
                    /\ DOMAIN after.child_objects =
                          DOMAIN recv.child_objects \cup DOMAIN other.child_objects
                    /\ \A l \in DOMAIN after.child_objects :
                          after.child_objects[l].attrs =
                             ChildAttrs(recv.child_objects, l)
                                \cup ChildAttrs(other.child_objects, l)

ObjectSchemaMergeChecksLabelWitness ==
    /\ ores.op = "merge_schema" /\ ores.cls = "ObjectSchema"
    /\ ores.kind = "ObjectSchemaError"
    /\ ores.arg.other.attrs # {} /\ ores.arg.before.attrs = {}
    /\ ores.arg.other.child_objects # EmptyContainerSchema

\* C28: after a.merge_schema(b) succeeds, b.validate_subset_of_schema(a)
\* succeeds and the schema a held before the merge is a subset of the merged a.
MergeIsUpperBound ==
    (ores.op = "merge_then_subset" /\ ores.kind = "ok")
        => /\ ores.arg.b_in = "ok"
           /\ ores.arg.a_in = "ok"

\* a and b each declared something the other did not
MergeIsUpperBoundWitness ==
    /\ ores.op = "merge_then_subset" /\ ores.kind = "ok"
    /\ ores.arg.b_in = "ok" /\ ores.arg.a_in = "ok"
    /\ schemas.a # ores.arg.before
    /\ schemas.a # schemas.b
    /\ \E l \in DOMAIN ores.arg.before \cap DOMAIN schemas.b :
          /\ ~(ores.arg.before[l].attrs \subseteq schemas.b[l].attrs)
          /\ ~(schemas.b[l].frames \subseteq ores.arg.before[l].frames)

(***************************************************************************)
(* SpecAdd: declarations are added to an ObjectContainerSchema             *)
(***************************************************************************)
\* ObjectContainerSchema()
InitAdd ==
    /\ cur_schema = [cls |-> "ObjectContainerSchema", os |-> NewObjectSchema(None),
                     cs |-> EmptyContainerSchema]
    /\ dets = <<>> /\ objs = <<>> /\ ores = NoCall
    /\ pc = "data"
    /\ iterable = <<>> /\ built = NotBuilt /\ count = 0 /\ bools = <<>>
    /\ ranges = <<>> /\ FrIdle /\ ExtIdle

\* what a call of SpecAdd records: the label and attributes it was given and
\* whether the label was declared before the call
AddCall(op, label, attrs) ==
    CallArg(op, "ObjectContainerSchema", "ok", <<>>,
            [label |-> label, attrs |-> attrs,
             had |-> has_object_label(cur_schema.cs, label)])

\* schema.add_object_label(label)
AddObjectLabel(label) ==
    /\ pc = "data"
    /\ cur_schema' = [cur_schema EXCEPT !.cs = ensure_has_object_label(@, label)]
    /\ ores' = AddCall("add_object_label", label, {})
    /\ UNCHANGED <<dets, objs, pc>>
    /\ UNCHANGED <<frVars, iterable, built, count, bools, extVars>>

\* schema.add_object_attribute(label, attr)
AddObjectAttribute(label, attr) ==
    /\ pc = "data"
    /\ cur_schema' = [cur_schema EXCEPT
                        !.cs = ContainerSchema_add_object_attributes(@, label, {attr})]
    /\ ores' = AddCall("add_object_attribute", label, {attr})
    /\ UNCHANGED <<dets, objs, pc>>
    /\ UNCHANGED <<frVars, iterable, built, count, bools, extVars>>

\* schema.add_frame_attribute(label, attr)
AddFrameAttribute(label, attr) ==
    /\ pc = "data"
    /\ cur_schema' = [cur_schema EXCEPT
                        !.cs = ContainerSchema_add_frame_attributes(@, label, {attr})]
    /\ ores' = AddCall("add_frame_attribute", label, {attr})
    /\ UNCHANGED <<dets, objs, pc>>
    /\ UNCHANGED <<frVars, iterable, built, count, bools, extVars>>

\* schema.add_object_attributes(label, attrs)
AddObjectAttributes(label, attrs) ==
    /\ pc = "data"
    /\ cur_schema' = [cur_schema EXCEPT
                        !.cs = ContainerSchema_add_object_attributes(@, label, attrs)]
    /\ ores' = AddCall("add_object_attributes", label, attrs)
    /\ UNCHANGED <<dets, objs, pc>>
    /\ UNCHANGED <<frVars, iterable, built, count, bools, extVars>>

\* schema.add_frame_attributes(label, attrs)
AddFrameAttributes(label, attrs) ==
    /\ pc = "data"
    /\ cur_schema' = [cur_schema EXCEPT
                        !.cs = ContainerSchema_add_frame_attributes(@, label, attrs)]
    /\ ores' = AddCall("add_frame_attributes", label, attrs)
    /\ UNCHANGED <<dets, objs, pc>>
    /\ UNCHANGED <<frVars, iterable, built, count, bools, extVars>>

NextAdd ==
    \/ \E label \in LabelOrNone : AddObjectLabel(label)
    \/ \E label \in LabelOrNone, attr \in AttrUniverse : AddObjectAttribute(label, attr)
    \/ \E label \in LabelOrNone, attr \in AttrUniverse : AddFrameAttribute(label, attr)
    \/ \E label \in LabelOrNone, attrs \in SUBSET AttrUniverse :
          AddObjectAttributes(label, attrs)
    \/ \E label \in LabelOrNone, attrs \in SUBSET AttrUniverse :
          AddFrameAttributes(label, attrs)

SpecAdd == InitAdd /\ [][NextAdd]_vars

\* the names of the attributes an attribute schema declares
Names(acs) == {x.name : x \in acs}

\* C19: a call of add_object_label, add_object_attribute(s) or
\* add_frame_attribute(s) raises no error and never removes a declared label
\* or a declared attribute name of a label; when the label, and the
\* attributes if any, are declared already, the call leaves the schema as
\* it was.
DeclarationsAccumulate ==
    [][ores'.op \in {"add_object_label", "add_object_attribute", "add_frame_attribute",
                     "add_object_attributes", "add_frame_attributes"} =>
          LET old == cur_schema.cs
              new == cur_schema'.cs
              label == ores'.arg.label
              given == ores'.arg.attrs
          IN  /\ ores'.kind = "ok"
              /\ DOMAIN old \subseteq DOMAIN new
              /\ label \in DOMAIN new
              /\ \A l \in DOMAIN old :
                    /\ Names(old[l].attrs) \subseteq Names(new[l].attrs)
                    /\ Names(old[l].frames) \subseteq Names(new[l].frames)
              /\ (/\ label \in DOMAIN old
                   /\ (ores'.op \in {"add_object_attribute", "add_object_attributes"}
                         => given \subseteq old[label].attrs)
                   /\ (ores'.op \in {"add_frame_attribute", "add_frame_attributes"}
                         => given \subseteq old[label].frames))
                    => new = old
      ]_vars

DeclarationsAccumulateWitness ==
    /\ ores.op = "add_object_label"
    /\ ores.arg.had
    /\ cur_schema.cs[ores.arg.label].attrs # {}
    /\ cur_schema.cs[ores.arg.label].frames # {}
    /\ DOMAIN cur_schema.cs = LabelOrNone

(***************************************************************************)
(* SpecDetFilter: DetectedObject.filter_by_schema                          *)
(***************************************************************************)
\* d1 = DetectedObject(label=..., attrs=...), schema = ObjectSchema(label)
\* with frame-level attributes declared; ObjectSchema(None) is what
\* add_object_label(None) and build_active_schema of an unlabelled entity make
InitDetFilter ==
    /\ dets \in [{"d1"} -> {NewDetectedObject(l, NoInt, a) :
                                l \in LabelOrNone, a \in SUBSET AttrUniverse}]
    /\ objs = <<>>
    /\ \E l \in LabelOrNone, f \in SUBSET AttrUniverse :
          cur_schema = [cls |-> "ObjectSchema",
                        os |-> [NewObjectSchema(l) EXCEPT !.frames = f],
                        cs |-> EmptyContainerSchema]
    /\ ores = NoCall
    /\ pc = "data"
    /\ iterable = <<>> /\ built = NotBuilt /\ count = 0 /\ bools = <<>>
    /\ ranges = <<>> /\ FrIdle /\ ExtIdle

\* dobj.filter_by_schema(schema, allow_none_label=...)
DetFilterBySchema(d, allow_none_label) ==
    /\ pc = "data"
    /\ LET r == DetectedObject_filter_by_schema(dets[d], cur_schema.os, allow_none_label)
       IN  /\ dets' = [dets EXCEPT ![d] = r.dobj]
           /\ ores' = CallArg("filter_by_schema", "DetectedObject", r.kind, <<d>>,
                              [before |-> dets[d], allow_none_label |-> allow_none_label])
    /\ pc' = "filtered"
    /\ UNCHANGED <<objs, cur_schema>>
    /\ UNCHANGED <<frVars, iterable, built, count, bools, extVars>>

NextDetFilter == \E d \in DOMAIN dets, allow_none_label \in BOOLEAN :
                    DetFilterBySchema(d, allow_none_label)

SpecDetFilter == InitDetFilter /\ [][NextDetFilter]_vars

\* C21 as stated: DetectedObject.filter_by_schema fails with a schema error
\* unless the detection's label equals the schema's label, or is None with
\* allow_none_label set; a failed call leaves the attributes unchanged, a
\* successful one leaves the attributes the schema's frame-level schema permits.
DetFilterLabelEqualOrNone ==
    (ores.op = "filter_by_schema" /\ ores.cls = "DetectedObject")
        => LET before == ores.arg.before
               after == dets[ores.target[1]]
           IN  IF \/ before.label = cur_schema.os.label
                  \/ before.label = None /\ ores.arg.allow_none_label
               THEN /\ ores.kind = "ok"
                    /\ after.attrs = before.attrs \cap cur_schema.os.frames
               ELSE /\ ores.kind = "ObjectSchemaError"
                    /\ after.attrs = before.attrs

\* C21, amended: DetectedObject.filter_by_schema fails with a schema error
\* unless the detection's label is not None and equals the schema's label,
\* or is None with allow_none_label set (a None label without
\* allow_none_label fails also when the schema's label is None); a failed
\* call leaves the attributes unchanged, a successful one leaves the
\* attributes the schema's frame-level schema permits.
DetFilterLabelMatchesOrNoneAllowed ==
    (ores.op = "filter_by_schema" /\ ores.cls = "DetectedObject")
        => LET before == ores.arg.before
               after == dets[ores.target[1]]
           IN  IF \/ before.label # None /\ before.label = cur_schema.os.label
                  \/ before.label = None /\ ores.arg.allow_none_label
               THEN /\ ores.kind = "ok"
                    /\ after.attrs = before.attrs \cap cur_schema.os.frames
               ELSE /\ ores.kind = "ObjectSchemaError"
                    /\ after.attrs = before.attrs

DetFilterLabelMatchesOrNoneAllowedWitness ==
    /\ ores.op = "filter_by_schema" /\ ores.cls = "DetectedObject"
    /\ ores.kind = "ObjectSchemaError"
    /\ ores.arg.before.label = None /\ cur_schema.os.label = None
    /\ ores.arg.before.attrs = AttrUniverse /\ cur_schema.os.frames = {}

(***************************************************************************)
(* SpecTwo: two traversals of one FrameRanges instance                     *)
(***************************************************************************)
\* a FrameRanges that was constructed; neither traversal has begun
InitTwo ==
    /\ \E c \in Constructed :
          /\ c.kind = "ok"
          /\ \A i \in 1..Len(c.ranges) : c.ranges[i].last <= MaxFrame
          /\ ranges = c.ranges
    /\ idx = 0
    /\ started = FALSE
    /\ res = Result("init", "ok", -1, <<>>, FALSE)
    /\ yielded = <<>>
    /\ clean = FALSE
    /\ FnIdle /\ ObjIdle
    /\ tcall = NoTimeCall /\ elems = NoContainer /\ schemas = <<>>
    /\ trav = NoTrav /\ stack = <<>>

\* traversal t calls iter(frame_ranges): FrameRanges.__iter__ resets the one
\* cursor and returns the instance itself
TravIter(t) ==
    /\ IF t = 1 THEN trav.status = "idle" ELSE trav.status = "running"
    /\ ranges' = ResetRanges(ranges, idx)
    /\ idx' = 0
    /\ started' = FALSE
    /\ res' = Result("iter", "ok", -1, <<>>, FALSE)
    /\ yielded' = <<>>
    /\ clean' = TRUE
    /\ trav' = IF t = 1 THEN [trav EXCEPT !.status = "running"]
                        ELSE [trav EXCEPT !.disturbed = TRUE]
    /\ UNCHANGED <<fnVars, objVars, tcall, elems, schemas, stack>>

\* traversal t calls next on what iter returned: FrameRanges.__next__; the
\* first traversal ends when it gets StopIteration
TravNext(t) ==
    LET r == NextFrame(ranges, idx)
    IN  /\ trav.status = "running"
        /\ t = 1 => Len(trav.got) < MaxGot
        /\ started' = TRUE
        /\ ranges' = r.ranges
        /\ idx' = r.idx
        /\ res' = Result("next", r.kind, r.val, <<>>, FALSE)
        /\ yielded' = IF r.kind = "ok" THEN Append(yielded, r.val) ELSE yielded
        /\ UNCHANGED clean
        /\ trav' = IF t = 2 THEN [trav EXCEPT !.disturbed = TRUE]
                   ELSE IF r.kind = "ok" THEN [trav EXCEPT !.got = Append(@, r.val)]
                   ELSE [trav EXCEPT !.status = "done"]
        /\ UNCHANGED <<fnVars, objVars, tcall, elems, schemas, stack>>

NextTwo == \E t \in {1, 2} : TravIter(t) \/ TravNext(t)

SpecTwo == InitTwo /\ [][NextTwo]_vars

\* C24: two traversals of one instance share one cursor: each next, whoever
\* calls it, returns the frame that follows all the frames returned to either
\* traversal since the last iter by either; a first traversal that is left
\* alone yields to_list(), and a state is reachable (the witness) in which a
\* first traversal that a second one interleaved with has ended without
\* yielding exactly the frames of to_list().
TraversalsShareCursor ==
    /\ (res.op = "next" /\ res.kind = "ok")
          => /\ Len(yielded) <= Len(ToList(ranges))
             /\ res.val = ToList(ranges)[Len(yielded)]
    /\ (res.op = "next" /\ res.kind = "StopIteration") => yielded = ToList(ranges)
    /\ (trav.status = "done" /\ ~trav.disturbed) => trav.got = ToList(ranges)

TraversalsShareCursorWitness ==
    /\ trav.status = "done"
    /\ trav.disturbed
    /\ trav.got # ToList(ranges)

(***************************************************************************)
(* SpecIterDet: ObjectContainer.iter_detected_objects                      *)
(***************************************************************************)
RECURSIVE ObjectContainer_iter_detected_objects(_, _, _, _)
\* ObjectContainer.iter_detected_objects(label): for each Object that
\* iter_objects(label) yields, the elements of obj.child_objects, a set that
\* is iterated in the order order[handle]
ObjectContainer_iter_detected_objects(container, heap, label, order) ==
    IF container = <<>> THEN <<>>
    ELSE LET h == Head(container)
             rest == ObjectContainer_iter_detected_objects(Tail(container), heap, label, order)
         IN  IF label # "*" /\ heap[h].label # label THEN rest
             ELSE order[h] \o rest

\* ObjectContainer.iter_detected_object_attrs(label), run to its end: reads
\* detobj.attrs of what iter_detected_objects yields, and a uuid (a str) has
\* no attrs
ObjectContainer_iter_detected_object_attrs(container, heap, label, order) ==
    LET y == ObjectContainer_iter_detected_objects(container, heap, label, order)
    IN  IF y = <<>> THEN [kind |-> "ok", pairs |-> {}]
        ELSE [kind |-> "AttributeError", pairs |-> {}]

\* ObjectContainer(objects=[Object(label="car"), Object(label="dog", uuid="u2")])
\* and two DetectedObjects
InitIterDet ==
    /\ dets \in [DetIds -> {NewDetectedObject(None, NoInt, a) :
                                a \in {{}, {[name |-> "color", value |-> "red"]}}}]
    /\ objs = [h \in {"o1", "o2"} |->
                  IF h = "o1" THEN NewObject("car", None, {}, <<>>, {}, NoSupport)
                  ELSE NewObject("dog", "u2", {}, <<>>, {}, NoSupport)]
    /\ cur_schema = NoSchema
    /\ ores = NoCall
    /\ pc = "data"
    /\ iterable = <<>> /\ built = NotBuilt /\ count = 0 /\ bools = <<>>
    /\ ranges = <<>> /\ FrIdle
    /\ tcall = NoTimeCall /\ schemas = <<>> /\ trav = NoTrav /\ stack = <<>>
    /\ elems = [cls |-> "ObjectContainer", objects |-> <<"o1", "o2">>]

\* the orders in which the child_objects sets of the Objects can be iterated
ChildOrders ==
    {order \in [DOMAIN objs -> SeqsUpTo({"u2"}, 1)] :
        \A h \in DOMAIN objs : order[h] \in Orderings(SetToSeq(objs[h].child_objects))}

\* list(objects.iter_detected_objects(label))
IterDetectedObjects(label) ==
    /\ pc = "data"
    /\ \E order \in ChildOrders :
          ores' = CallArg("iter_detected_objects", "ObjectContainer", "ok", elems.objects,
                          [label |-> label,
                           yielded |-> ObjectContainer_iter_detected_objects(
                                           elems.objects, objs, label, order)])
    /\ UNCHANGED <<dets, objs, cur_schema, pc>>
    /\ UNCHANGED <<frVars, iterable, built, count, bools, extVars>>

\* list(objects.iter_detected_object_attrs(label))
IterDetectedObjectAttrs(label) ==
    /\ pc = "data"
    /\ \E order \in ChildOrders :
          LET r == ObjectContainer_iter_detected_object_attrs(elems.objects, objs, label, order)
          IN  ores' = CallArg("iter_detected_object_attrs", "ObjectContainer", r.kind,
                              elems.objects, [label |-> label, pairs |-> r.pairs])
    /\ UNCHANGED <<dets, objs, cur_schema, pc>>
    /\ UNCHANGED <<frVars, iterable, built, count, bools, extVars>>

NextIterDet ==
    \/ \E o \in DOMAIN objs, d \in DOMAIN dets, fn \in FrameNumberArgs : ObjAddDetection(o, d, fn)
    \/ \E o \in DOMAIN objs, c \in DOMAIN objs : ObjAddChildObject(o, c)
    \/ \E label \in Labels \cup {"*"} : IterDetectedObjects(label)
    \/ \E label \in Labels \cup {"*"} : IterDetectedObjectAttrs(label)

SpecIterDet == InitIterDet /\ [][NextIterDet]_vars

\* the detections held in the frames of the Objects of a container whose label
\* matches, in container and dictionary order
RECURSIVE FrameDetections(_, _, _)
FrameDetections(container, heap, label) ==
    IF container = <<>> THEN <<>>
    ELSE LET h == Head(container)
             rest == FrameDetections(Tail(container), heap, label)
         IN  IF label # "*" /\ heap[h].label # label THEN rest
             ELSE IterDetections(heap[h]) \o rest

\* C25: ObjectContainer.iter_detected_objects(label) yields the DetectedObjects
\* held in the frames of every Object of the container whose label matches
\* ("*" matches any), and iter_detected_object_attrs yields the (DetectedObject,
\* Attribute) pairs of these.
IterYieldsFrameDetections ==
    /\ ores.op = "iter_detected_objects"
          => ores.arg.yielded = FrameDetections(elems.objects, objs, ores.arg.label)
    /\ ores.op = "iter_detected_object_attrs"
          => /\ ores.kind = "ok"
             /\ ores.arg.pairs =
                   {<<d, a>> \in Range(FrameDetections(elems.objects, objs, ores.arg.label))
                                   \X AttrUniverse : a \in dets[d].attrs}

(***************************************************************************)
(* SpecDescend: the calls that Object.filter_by_schema makes               *)
(***************************************************************************)
\* a call obj.filter_by_schema(schema, objects) that has begun: the Object,
\* its arguments, how far it is, and the child uuids its loop has yet to visit
NewFilterCall(h, schema, objects, order) ==
    [h |-> h, schema |-> schema, objects |-> objects, order |-> order,
     stage |-> "own", todo |-> <<>>]

\* the objects argument of the call on a child, mutated: the lookup table of
\* the caller is handed on
ChildCallObjects_handed_on(objects) == objects

\* the objects argument of child_obj.filter_by_schema(
\* schema.get_child_object_schema(child_obj.label)): omitted, so None
ChildCallObjects(objects) == <<>>

\* two Objects with uuids, and an ObjectSchema
InitDescend ==
    /\ dets = <<>>
    /\ \E l1 \in Labels, l2 \in Labels :
          objs = [h \in {"o1", "o2"} |->
                    NewObject(IF h = "o1" THEN l1 ELSE l2, UuidOf(h),
                              {[name |-> "color", value |-> "red"]}, <<>>, {}, NoSupport)]
    /\ \E sc \in FilterSchemas :
          cur_schema = [cls |-> "ObjectSchema", os |-> sc, cs |-> EmptyContainerSchema]
    /\ ores = NoCall
    /\ pc = "data"
    /\ iterable = <<>> /\ built = NotBuilt /\ count = 0 /\ bools = <<>>
    /\ ranges = <<>> /\ FrIdle /\ ExtIdle

\* lookup tables {obj.uuid: obj} over some of the Objects
DescendLookups ==
    {[u \in {objs[h].uuid : h \in hs} |-> CHOOSE h \in hs : objs[h].uuid = u] :
        hs \in SUBSET DOMAIN objs}

\* obj.filter_by_schema(schema, objects) is called
FilterCall(o, objects, order) ==
    /\ pc = "data"
    /\ stack' = <<NewFilterCall(o, cur_schema.os, objects, order)>>
    /\ ores' = CallArg("filter_by_schema", "Object", "running", <<o>>,
                       [calls |-> 1, children |-> Cardinality(objs[o].child_objects),
                        objs |-> objs, objects |-> objects, order |-> order])
    /\ pc' = "running"
    /\ UNCHANGED <<dets, objs, cur_schema>>
    /\ UNCHANGED <<frVars, iterable, built, count, bools, tcall, elems, schemas, trav>>

\* the running call validates the label and filters the object-level
\* attributes and the detections; `if objects:` then decides about the loop
FilterOwn ==
    /\ pc = "running"
    /\ LET top == stack[Len(stack)]
           r == Object_filter_own(dets, objs, top.h, top.schema)
       IN  /\ top.stage = "own"
           /\ dets' = r.dets
           /\ objs' = r.objs
           /\ IF r.kind # "ok"
              THEN /\ stack' = <<>>
                   /\ ores' = [ores EXCEPT !.kind = r.kind]
                   /\ pc' = "filtered"
              ELSE /\ stack' = [stack EXCEPT ![Len(stack)] =
                                   [top EXCEPT !.stage = "children",
                                               !.todo = IF top.objects = <<>> THEN <<>>
                                                        ELSE top.order]]
                   /\ UNCHANGED <<ores, pc>>
    /\ UNCHANGED cur_schema
    /\ UNCHANGED <<frVars, iterable, built, count, bools, tcall, elems, schemas, trav>>

\* one round of `for uuid in self.child_objects`: the uuid is skipped, removed
\* (and the next step of the loop raises), or its Object is filtered by a call
FilterChild ==
    /\ pc = "running"
    /\ LET top == stack[Len(stack)]
           uuid == Head(top.todo)
           rest == [stack EXCEPT ![Len(stack)] = [top EXCEPT !.todo = Tail(top.todo)]]
       IN  /\ top.stage = "children"
           /\ top.todo # <<>>
           /\ IF uuid \notin DOMAIN top.objects
              THEN /\ stack' = rest
                   /\ UNCHANGED <<objs, ores, pc>>
              ELSE LET child == top.objects[uuid]
                   IN  IF ~has_object_label(top.schema.child_objects, objs[child].label)
                       THEN /\ objs' = [objs EXCEPT ![top.h].child_objects = @ \ {uuid}]
                            /\ IF AfterRemove # "ok"
                               THEN /\ stack' = <<>>
                                    /\ ores' = [ores EXCEPT !.kind = AfterRemove]
                                    /\ pc' = "filtered"
                               ELSE /\ stack' = rest
                                    /\ UNCHANGED <<ores, pc>>
                       ELSE /\ stack' = Append(rest,
                                   NewFilterCall(child,
                                       top.schema.child_objects[objs[child].label],
                                       ChildCallObjects(top.objects),
                                       SetToSeq(objs[child].child_objects)))
                            /\ ores' = [ores EXCEPT !.arg.calls = @ + 1]
                            /\ UNCHANGED <<objs, pc>>
    /\ UNCHANGED <<dets, cur_schema>>
    /\ UNCHANGED <<frVars, iterable, built, count, bools, tcall, elems, schemas, trav>>

\* the loop of the running call is over: the call returns
FilterReturn ==
    /\ pc = "running"
    /\ LET top == stack[Len(stack)]
       IN  /\ top.stage = "children"
           /\ top.todo = <<>>
    /\ stack' = SubSeq(stack, 1, Len(stack) - 1)
    /\ IF Len(stack) = 1
       THEN /\ ores' = [ores EXCEPT !.kind = "ok"]
            /\ pc' = "filtered"
       ELSE UNCHANGED <<ores, pc>>
    /\ UNCHANGED <<dets, objs, cur_schema>>
    /\ UNCHANGED <<frVars, iterable, built, count, bools, tcall, elems, schemas, trav>>

NextDescend ==
    \/ \E o \in DOMAIN objs, c \in DOMAIN objs : ObjAddChildObject(o, c)
    \/ \E o \in DOMAIN objs, objects \in DescendLookups :
          \E order \in Orders(objs[o].child_objects) : FilterCall(o, objects, order)
    \/ FilterOwn
    \/ FilterChild
    \/ FilterReturn

SpecDescend == InitDescend /\ [][NextDescend]_vars

\* C29: Object.filter_by_schema(schema, objects) terminates for every lookup
\* table, also when the child references form a cycle or an Object is its own
\* child: at most two calls are running at a time, a call on a child has no
\* lookup table and visits no children, the calls made are at most one more
\* than the children of the Object, and the call ends as the one-level
\* filter does.
FilterNeverDescends ==
    /\ Len(stack) <= 2
    /\ \A i \in 2..Len(stack) : stack[i].objects = <<>> /\ stack[i].todo = <<>>
    /\ ores.op = "filter_by_schema" => ores.arg.calls <= 1 + ores.arg.children
    /\ (ores.op = "filter_by_schema" /\ pc = "filtered")
          => LET r == Object_filter_by_schema(dets, ores.arg.objs, ores.target[1],
                                              cur_schema.os, ores.arg.objects, ores.arg.order)
             IN  r.kind = ores.kind /\ r.objs = objs

\* the call has returned for an Object that is its own child and lies on a
\* cycle with the other, after calls on both children
FilterNeverDescendsWitness ==
    /\ ores.op = "filter_by_schema" /\ pc = "filtered" /\ ores.kind = "ok"
    /\ ores.arg.calls = 3
    /\ LET o == ores.target[1]
       IN  /\ objs[o].uuid \in objs[o].child_objects
           /\ \E c \in DOMAIN objs \ {o} :
                 objs[c].uuid \in objs[o].child_objects /\ objs[o].uuid \in objs[c].child_objects

(***************************************************************************)
(* SpecBuild: ObjectContainerSchemas built from empty                      *)
(***************************************************************************)
BuildColor == {[name |-> "color", value |-> "red"]}

\* the labels handed to the add_* calls; dog comes in with a DetectedObject
BuildLabels == {"car", None}

\* a = ObjectContainerSchema(); b = ObjectContainerSchema();
\* d1 = DetectedObject(label=..., attrs=...); o1 = Object(label="car", frames=...)
InitBuild ==
    /\ schemas = [t \in {"a", "b"} |-> EmptyContainerSchema]
    /\ dets \in [{"d1"} -> {NewDetectedObject(l, NoInt, BuildColor) : l \in {None, "dog"}}]
    /\ \E fr \in {<<>>, << <<1, "d1">> >>} :
          objs = [h \in {"o1"} |-> NewObject("car", None, {}, fr, {}, NoSupport)]
    /\ cur_schema = NoSchema
    /\ ores = NoCall
    /\ pc = "data"
    /\ iterable = <<>> /\ built = NotBuilt /\ count = 0 /\ bools = <<>>
    /\ ranges = <<>> /\ FrIdle
    /\ tcall = NoTimeCall /\ elems = NoContainer /\ trav = NoTrav /\ stack = <<>>

\* schemas[t].add_object_label(label)
BuildAddObjectLabel(t, label) ==
    /\ pc = "data"
    /\ schemas' = [schemas EXCEPT ![t] = ensure_has_object_label(@, label)]
    /\ ores' = Call("add_object_label", "ObjectContainerSchema", "ok", <<t>>)
    /\ UNCHANGED <<dets, objs, cur_schema, pc>>
    /\ UNCHANGED <<frVars, iterable, built, count, bools, tcall, elems, trav, stack>>

\* schemas[t].add_object_attribute(label, attr)
BuildAddObjectAttribute(t, label, attr) ==
    /\ pc = "data"
    /\ schemas' = [schemas EXCEPT ![t] = ContainerSchema_add_object_attributes(@, label, {attr})]
    /\ ores' = Call("add_object_attribute", "ObjectContainerSchema", "ok", <<t>>)
    /\ UNCHANGED <<dets, objs, cur_schema, pc>>
    /\ UNCHANGED <<frVars, iterable, built, count, bools, tcall, elems, trav, stack>>

\* schemas[t].add_frame_attribute(label, attr)
BuildAddFrameAttribute(t, label, attr) ==
    /\ pc = "data"
    /\ schemas' = [schemas EXCEPT ![t] = ContainerSchema_add_frame_attributes(@, label, {attr})]
    /\ ores' = Call("add_frame_attribute", "ObjectContainerSchema", "ok", <<t>>)
    /\ UNCHANGED <<dets, objs, cur_schema, pc>>
    /\ UNCHANGED <<frVars, iterable, built, count, bools, tcall, elems, trav, stack>>

\* schemas[t].add_object_attributes(label, attrs)
BuildAddObjectAttributes(t, label, attrs) ==
    /\ pc = "data"
    /\ schemas' = [schemas EXCEPT ![t] = ContainerSchema_add_object_attributes(@, label, attrs)]
    /\ ores' = Call("add_object_attributes", "ObjectContainerSchema", "ok", <<t>>)
    /\ UNCHANGED <<dets, objs, cur_schema, pc>>
    /\ UNCHANGED <<frVars, iterable, built, count, bools, tcall, elems, trav, stack>>

\* schemas[t].add_frame_attributes(label, attrs)
BuildAddFrameAttributes(t, label, attrs) ==
    /\ pc = "data"
    /\ schemas' = [schemas EXCEPT ![t] = ContainerSchema_add_frame_attributes(@, label, attrs)]
    /\ ores' = Call("add_frame_attributes", "ObjectContainerSchema", "ok", <<t>>)
    /\ UNCHANGED <<dets, objs, cur_schema, pc>>
    /\ UNCHANGED <<frVars, iterable, built, count, bools, tcall, elems, trav, stack>>

\* schemas[t].add_object(obj), obj an Object or a DetectedObject
BuildAddObject(t, h) ==
    /\ pc = "data"
    /\ schemas' = [schemas EXCEPT ![t] = ContainerSchema_add_objects(@, <<h>>, Heap)]
    /\ ores' = Call("add_object", "ObjectContainerSchema", "ok", <<t>>)
    /\ UNCHANGED <<dets, objs, cur_schema, pc>>
    /\ UNCHANGED <<frVars, iterable, built, count, bools, tcall, elems, trav, stack>>

\* schemas[t].add_objects(objects), objects a container of one class
BuildAddObjects(t, container) ==
    /\ pc = "data"
    /\ schemas' = [schemas EXCEPT ![t] = ContainerSchema_add_objects(@, container, Heap)]
    /\ ores' = Call("add_objects", "ObjectContainerSchema", "ok", <<t>>)
    /\ UNCHANGED <<dets, objs, cur_schema, pc>>
    /\ UNCHANGED <<frVars, iterable, built, count, bools, tcall, elems, trav, stack>>

\* schemas[t].merge_schema(schemas[u])
BuildMergeSchema(t, u) ==
    /\ pc = "data"
    /\ LET r == ContainerSchema_merge_schema(schemas[t], schemas[u])
       IN  /\ schemas' = [schemas EXCEPT ![t] = r.schema]
           /\ ores' = Call("merge_schema", "ObjectContainerSchema", r.kind, <<t, u>>)
    /\ UNCHANGED <<dets, objs, cur_schema, pc>>
    /\ UNCHANGED <<frVars, iterable, built, count, bools, tcall, elems, trav, stack>>

NextBuild ==
    \E t \in {"a", "b"} :
        \/ \E label \in BuildLabels : BuildAddObjectLabel(t, label)
        \/ \E label \in BuildLabels, attr \in BuildColor : BuildAddObjectAttribute(t, label, attr)
        \/ \E label \in BuildLabels, attr \in BuildColor : BuildAddFrameAttribute(t, label, attr)
        \/ \E label \in BuildLabels, attrs \in SUBSET BuildColor :
              BuildAddObjectAttributes(t, label, attrs)
        \/ \E label \in BuildLabels, attrs \in SUBSET BuildColor :
              BuildAddFrameAttributes(t, label, attrs)
        \/ \E h \in {"d1", "o1"} : BuildAddObject(t, h)
        \/ \E container \in SeqsUpTo({"d1"}, MaxElems) \cup SeqsUpTo({"o1"}, MaxElems) :
              BuildAddObjects(t, container)
        \/ \E u \in {"a", "b"} : BuildMergeSchema(t, u)

SpecBuild == InitBuild /\ [][NextBuild]_vars

\* C30: in every ObjectContainerSchema built from an empty one through
\* add_object_label, add_object_attribute(s), add_frame_attribute(s),
\* add_object(s) and merge_schema, each entry label -> ObjectSchema has
\* ObjectSchema.label == label, so get_object_schema(L).validate_label(L)
\* does not fail for a declared label L; none of the calls fails.
EntryLabelIsKey ==
    /\ ores.kind = "ok"
    /\ \A t \in DOMAIN schemas : \A L \in DOMAIN schemas[t] :
          /\ schemas[t][L].label = L
          /\ get_object_schema(schemas[t], L).kind = "ok"
          /\ ObjectSchema_validate_label(get_object_schema(schemas[t], L).schema, L) = "ok"

\* a merge into a schema that then declares the three labels, one of them
\* first declared by the other schema
EntryLabelIsKeyWitness ==
    /\ ores.op = "merge_schema" /\ ores.target = <<"a", "b">>
    /\ DOMAIN schemas.a = LabelOrNone
    /\ DOMAIN schemas.b = {"dog"}
    /\ schemas.a["dog"].frames # {}
    /\ schemas.a[None].attrs # {}

(***************************************************************************)
(* SpecObject: detections and children are added to an Object              *)
(***************************************************************************)
\* the support argument of Object.__init__: None or FrameRanges over the frames
Supports == {NoSupport, << <<NewFrameRange(1, MaxDetFrame)>> >>}

\* o1 = Object(label="car", support=...), o2 = Object(uuid=...),
\* d = DetectedObject(label=..., frame_number=...)
InitObject ==
    /\ dets \in [DetIds -> {NewDetectedObject(l, fn, {}) :
                                l \in LabelOrNone, fn \in FrameNumberArgs}]
    /\ \E sup \in Supports, u \in {None, "u2"} :
          objs = [h \in {"o1", "o2"} |->
                    IF h = "o1" THEN NewObject("car", None, {}, <<>>, {}, sup)
                    ELSE NewObject(None, u, {}, <<>>, {}, NoSupport)]
    /\ cur_schema = NoSchema
    /\ ores = NoCall
    /\ pc = "data"
    /\ iterable = <<>> /\ built = NotBuilt /\ count = 0 /\ bools = <<>>
    /\ ranges = <<>> /\ FrIdle /\ ExtIdle

\* obj.add_detections(objects), objects a DetectedObjectContainer
ObjAddDetections(o, handles) ==
    /\ pc = "data"
    /\ LET r == Object_add_detections(dets, objs, o, handles)
       IN  /\ dets' = r.dets
           /\ objs' = r.objs
           /\ ores' = CallArg("add_detections", "Object", r.kind, <<o>>, handles)
    /\ UNCHANGED <<cur_schema, pc>>
    /\ UNCHANGED <<frVars, iterable, built, count, bools, extVars>>

\* obj.support
ObjSupport(o) ==
    /\ pc = "data"
    /\ LET r == Object_support(objs[o])
       IN  ores' = CallArg("support", "Object", r.kind, <<o>>, r.ranges)
    /\ UNCHANGED <<dets, objs, cur_schema, pc>>
    /\ UNCHANGED <<frVars, iterable, built, count, bools, extVars>>

NextObject ==
    \/ \E d \in DOMAIN dets, fn \in FrameNumberArgs : ObjAddDetection("o1", d, fn)
    \/ \E handles \in SeqsUpTo(DOMAIN dets, MaxElems) : ObjAddDetections("o1", handles)
    \/ \E c \in DOMAIN objs : ObjAddChildObject("o1", c)
    \/ ObjSupport("o1")

SpecObject == InitObject /\ [][NextObject]_vars

\* C26: after any sequence of successful add_detection calls on an Object,
\* also with one DetectedObject added under several frame numbers, every entry
\* k -> d of the frames map satisfies d.frame_number == k.
FrameKeyIsFrameNumber ==
    \A o \in DOMAIN objs : \A i \in DOMAIN objs[o].frames :
        dets[objs[o].frames[i][2]].frame_number = <<objs[o].frames[i][1]>>

AddDetectionFrameNumber ==
    [][ores'.op = "add_detection" =>
          LET o == ores'.target[1]
              d == ores'.target[2]
              fn == ores'.arg.frame_number
          IN  IF fn = NoInt /\ dets[d].frame_number = NoInt
              THEN /\ ores'.kind = "ValueError"
                   /\ objs'[o].frames = objs[o].frames
                   /\ dets'[d].label = dets[d].label
                   /\ dets'[d].frame_number = dets[d].frame_number
              ELSE LET key == IF fn # NoInt THEN fn ELSE dets[d].frame_number
                   IN  /\ ores'.kind = "ok"
                       /\ \E i \in DOMAIN objs'[o].frames :
                             objs'[o].frames[i] = <<key[1], d>>
                       /\ dets'[d].frame_number = key
      ]_vars

AddDetectionFrameNumberWitness ==
    /\ ores.op = "add_detection"
    /\ ores.kind = "ValueError"
    /\ dets[ores.target[2]].label # None
    /\ objs["o1"].frames # <<>>

\* C14: every DetectedObject stored in the frames of an Object that was
\* created without frames has label None.
StoredDetectionsUnlabelled ==
    \A o \in DOMAIN objs : \A i \in DOMAIN objs[o].frames :
        dets[objs[o].frames[i][2]].label = None

StoredDetectionsUnlabelledWitness ==
    /\ ores.op = "add_detection"
    /\ ores.kind = "ok"
    /\ ores.arg.label # None
    /\ \E i \in DOMAIN objs["o1"].frames :
          /\ objs["o1"].frames[i][2] = ores.target[2]
          /\ dets[ores.target[2]].label = None
    /\ Len(objs["o1"].frames) = 2

=============================================================================
